---- MODULE Spec2Model ----
(***************************************************************************)
(* The simulated-trading ledger of yolo-discord: DatabaseImpl.tx (one       *)
(* sqlite connection behind one asyncio.Lock), the TxImpl statements, the  *)
(* price service and the YoloServiceImpl operations, as coroutines that     *)
(* interleave at their await points.                                        *)
(*                                                                         *)
(* Money is a Decimal amount of dollars in the code.  Here an amount is an  *)
(* integer number of 1/Resolution cent, so from_cents multiplies by         *)
(* Resolution and get_amount_in_sub_unit (int(100 * amount)) divides and    *)
(* truncates.                                                               *)
(***************************************************************************)
EXTENDS Integers, Sequences, FiniteSets

\* ---------------------------------------------------------------- bounds
MaxCalls == 3
MaxQty == 2
Resolution == 2
MaxGiftCents == 4
MaxDay == 8
\* STARTING_BALANCE_CENTS of the environment, read by get_config
StartingBalanceCents == 3

\* WEEKLY_ALLOWANCE_CENTS of the environment, read by get_config
WeeklyAllowanceCents == 2
\* date('now', '-7 days')
WindowDays == 7
\* TTLCache(0, ttl=900): seconds
TtlSeconds == 900
\* the clock of the cache is looked at every TickSeconds, up to MaxClock
TickSeconds == 300
MaxClock == 2400
MaxSnapshotDay == 1
MaxRateQty == 2
MaxRatePaidCents == 3
MaxRatePrice == 5
MaxQuantityCalls == 2
MaxOnboardingCalls == 2
MaxLiveCalls == 2

Procs == {"p1", "p2"}
Users == {"u1", "u2"}
Securities == {"ACME"}
Quantities == 1 .. MaxQty
\* the quotes finnhub can answer with: one whole-cent price, one that is not
OraclePrices == {Resolution, Resolution + 1}

NoProc == "none"
\* SQL NULL and Python None; a present value v is <<v>>
Null == <<>>
Some(v) == <<v>>
Val(o) == o[1]

\* ------------------------------------------------------------ pure parts
from_cents(cents) == cents * Resolution

get_amount_in_sub_unit(amount) ==
    IF amount >= 0 THEN amount \div Resolution
    ELSE -((-amount) \div Resolution)

starting_balance == from_cents(StartingBalanceCents)

weekly_allowance == from_cents(WeeklyAllowanceCents)

RECURSIVE SumSeq(_)
SumSeq(s) == IF s = <<>> THEN 0 ELSE Head(s) + SumSeq(Tail(s))

\* SQL SUM(expr): NULL over no rows, else the sum
SqlSum(values) == IF values = <<>> THEN Null ELSE Some(SumSeq(values))

\* SQL COALESCE(x, d)
Coalesce(x, d) == IF x = Null THEN d ELSE Val(x)

\* the CASE with its branches exchanged
SignedAmountFlipped(row) ==
    IF row.type = "DEBIT" THEN row.amount_cents ELSE -row.amount_cents

\* CASE WHEN type = 'DEBIT' THEN -amount_cents ELSE amount_cents END
SignedAmount(row) ==
    IF row.type = "DEBIT" THEN -row.amount_cents ELSE row.amount_cents

\* the CASE left out: every order counts as a purchase
SignedQuantityUnsigned(row) == row.quantity

\* quantity * (CASE WHEN type = 'BUY' THEN 1 ELSE -1 END)
SignedQuantity(row) ==
    row.quantity * (IF row.type = "BUY" THEN 1 ELSE -1)

\* the summed expression, row by row
MapSeq(s, F(_)) == [i \in 1 .. Len(s) |-> F(s[i])]

\* TxImpl.get_user_balance on the connection's view db
get_user_balance(db, user_id) ==
    LET rows == SelectSeq(db.transactions, LAMBDA r : r.user_id = user_id)
    IN  from_cents(Coalesce(SqlSum(MapSeq(rows, SignedAmount)), 0))

\* TxImpl.get_user_security_quantity: SUM without COALESCE, so NULL (None)
\* when the user has no order row for the security
get_user_security_quantity(db, user_id, security_name) ==
    LET rows == SelectSeq(db.orders,
                    LAMBDA r : r.user_id = user_id
                               /\ r.security_name = security_name)
    IN  SqlSum(MapSeq(rows, SignedQuantity))

\* a TransactionInsert and an OrderInsert
TransactionInsert(user_id, type, amount, comment) ==
    [user_id |-> user_id, type |-> type, amount |-> amount,
     comment |-> comment]

OrderInsert(user_id, transaction_id, type, request, security_price) ==
    [user_id |-> user_id, transaction_id |-> transaction_id, type |-> type,
     security_name |-> request.security_name,
     security_price |-> security_price, quantity |-> request.quantity]

\* the row TxImpl.create_transaction inserts; lastrowid is the next row id
TransactionRow(db, request) ==
    [id |-> Len(db.transactions) + 1, user_id |-> request.user_id,
     type |-> request.type,
     amount_cents |-> get_amount_in_sub_unit(request.amount),
     comment |-> request.comment]

\* the row TxImpl.create_order inserts
OrderRow(db, request) ==
    [id |-> Len(db.orders) + 1, user_id |-> request.user_id,
     transaction_id |-> request.transaction_id, type |-> request.type,
     security_name |-> request.security_name,
     security_price_cents |-> get_amount_in_sub_unit(request.security_price),
     quantity |-> request.quantity]

\* create_transaction writing over the newest row instead of adding one
create_transaction_replacing(db, request) ==
    IF db.transactions = <<>>
    THEN [db EXCEPT !.transactions = <<TransactionRow(db, request)>>]
    ELSE [db EXCEPT !.transactions =
             [@ EXCEPT ![Len(@)] =
                 [TransactionRow(db, request) EXCEPT !.id = Len(db.transactions)]]]

create_transaction(db, request) ==
    [db EXCEPT !.transactions = Append(@, TransactionRow(db, request))]

create_order(db, request) ==
    [db EXCEPT !.orders = Append(@, OrderRow(db, request))]

\* the Order object TxImpl.create_order returns: the request's own Money
Order(db, request) ==
    [id |-> Len(db.orders) + 1, user_id |-> request.user_id,
     transaction_id |-> request.transaction_id, type |-> request.type,
     security_name |-> request.security_name,
     security_price |-> request.security_price,
     quantity |-> request.quantity]

\* INSERT OR IGNORE INTO discord_users
create_user_row(db, user_id) == [db EXCEPT !.users = @ \cup {user_id}]

\* INSERT INTO allowances (user_id): created_at is the day of the insert
create_allowance(db, user_id, today) ==
    [db EXCEPT !.allowances =
        Append(@, [user_id |-> user_id, created_at |-> today])]

\* security_price_cents * quantity * (CASE WHEN type = 'BUY' THEN 1 ELSE -1
\* END)
SignedCost(row) ==
    row.security_price_cents * row.quantity
        * (IF row.type = "BUY" THEN 1 ELSE -1)

\* one group of GROUP BY security_name, as an OwnedSecurity
OwnedSecurity(db, user_id, security_name) ==
    LET rows == SelectSeq(db.orders,
                    LAMBDA r : r.user_id = user_id
                               /\ r.security_name = security_name)
    IN  [name |-> security_name,
         quantity |-> SumSeq(MapSeq(rows, SignedQuantity)),
         total_price_paid |-> from_cents(SumSeq(MapSeq(rows, SignedCost)))]

\* the join condition with a window of one day
RecentGrantOneDay(a, today) == a.created_at > today - 1

\* a.created_at > date('now', '-7 days'), both taken as days: a grant made
\* on the day seven days back is not recent (it would be if created_at
\* carried a time of day)
RecentGrant(a, today) == a.created_at > today - WindowDays

\* the rows of discord_users du LEFT JOIN allowances a ON du.user_id =
\* a.user_id AND <recent>: a user without a recent grant gives one row whose
\* a.user_id is NULL, a user with recent grants gives one row for each
LeftJoinAllowances(db, today) ==
    UNION {LET matches == {i \in 1 .. Len(db.allowances) :
                             /\ db.allowances[i].user_id = u
                             /\ RecentGrant(db.allowances[i], today)}
           IN  IF matches = {}
               THEN {[du_user_id |-> u, a_user_id |-> Null, a_row |-> 0]}
               ELSE {[du_user_id |-> u, a_user_id |-> Some(u), a_row |-> i] :
                       i \in matches}
           : u \in db.users}

\* the lists a set of rows can come back as: sqlite promises no order
Orderings(S) ==
    {f \in [1 .. Cardinality(S) -> S] :
        \A i, j \in 1 .. Cardinality(S) : f[i] = f[j] => i = j}

\* TxImpl.get_eligible_users_for_allowance: WHERE a.user_id IS NULL, and
\* row["user_id"] of each row left, in any of the orders
get_eligible_users_for_allowance(db, today) ==
    LET rows == {r \in LeftJoinAllowances(db, today) : r.a_user_id = Null}
    IN  {[i \in 1 .. Len(ordered) |-> ordered[i].du_user_id] :
            ordered \in Orderings(rows)}

\* TxImpl.get_owned_securities: the groups WHERE quantity > 0, in any of
\* the orders
get_owned_securities(db, user_id) ==
    LET names == {db.orders[i].security_name :
                    i \in {j \in 1 .. Len(db.orders) :
                             db.orders[j].user_id = user_id}}
        groups == {OwnedSecurity(db, user_id, name) : name \in names}
    IN  Orderings({g \in groups : g.quantity > 0})

\* n / d to the nearest integer, for d > 0, a tie going to the even one
RoundHalfEven(n, d) ==
    LET q == n \div d
        r == n % d
    IN  IF 2 * r < d THEN q
        ELSE IF 2 * r > d THEN q + 1
        ELSE IF q % 2 = 0 THEN q ELSE q + 1

\* calculate_return_rate without the test of paid <= 0, where it divides
calculate_return_rate_unguarded(paid_price, current_price) ==
    LET paid == get_amount_in_sub_unit(paid_price)
        current == get_amount_in_sub_unit(current_price)
    IN  IF paid = 0 THEN 0
        ELSE IF paid < 0 THEN RoundHalfEven(10000 * (paid - current), -paid)
        ELSE RoundHalfEven(10000 * (current - paid), paid)

\* calculate_return_rate: round(rate * 100, 2), here as a whole number of
\* hundredths of a percent
calculate_return_rate(paid_price, current_price) ==
    LET paid == get_amount_in_sub_unit(paid_price)
        current == get_amount_in_sub_unit(current_price)
    IN  IF paid <= 0 THEN 0
        ELSE RoundHalfEven(10000 * (current - paid), paid)

\* PortfolioEntryEncoder.default: the Money fields as whole cents
PortfolioEntryEncoder(o) ==
    [security_name |-> o.security_name,
     balance |-> get_amount_in_sub_unit(o.balance),
     quantity |-> o.quantity,
     total_price_paid |-> get_amount_in_sub_unit(o.total_price_paid),
     return_rate |-> o.return_rate]

\* PortfolioEntryDecoder: the cents as Money again
PortfolioEntryDecoder(obj) ==
    [security_name |-> obj.security_name,
     balance |-> from_cents(obj.balance),
     quantity |-> obj.quantity,
     total_price_paid |-> from_cents(obj.total_price_paid),
     return_rate |-> obj.return_rate]

\* dumps(portfolio, cls=PortfolioEntryEncoder) and loads(data,
\* cls=PortfolioEntryDecoder)
dumps(portfolio) == MapSeq(portfolio, PortfolioEntryEncoder)
loads(data) == MapSeq(data, PortfolioEntryDecoder)

\* TxImpl.create_portfolio_snapshot: created_at is the day of the insert
create_portfolio_snapshot(db, user_id, portfolio, today) ==
    [db EXCEPT !.portfolio_snapshots =
        Append(@, [user_id |-> user_id, created_at |-> today,
                   data |-> dumps(portfolio)])]

\* TxImpl.get_user_portfolio_snapshots: the rows of the user ORDER BY
\* created_at ASC, rows of one date in any order, each as a
\* PortfolioSnapshot
get_user_portfolio_snapshots(db, user_id) ==
    LET rows == {i \in 1 .. Len(db.portfolio_snapshots) :
                    db.portfolio_snapshots[i].user_id = user_id}
        ascending == {f \in Orderings(rows) :
                        \A i, j \in 1 .. Len(f) :
                            i < j => db.portfolio_snapshots[f[i]].created_at
                                        <= db.portfolio_snapshots[f[j]].created_at}
    IN  {[i \in 1 .. Len(f) |->
             [created_at |-> db.portfolio_snapshots[f[i]].created_at,
              entries |-> loads(db.portfolio_snapshots[f[i]].data)]] :
            f \in ascending}

\* the key of portfolio_snapshots never being taken: no uniqueness
SnapshotKeyNeverTaken(db, user_id, today) == FALSE

\* portfolio_snapshots is keyed by user and date: a row of the user with
\* today's date is there already
SnapshotKeyTaken(db, user_id, today) ==
    \E i \in 1 .. Len(db.portfolio_snapshots) :
        /\ db.portfolio_snapshots[i].user_id = user_id
        /\ db.portfolio_snapshots[i].created_at = today

\* the PortfolioEntry of a holding at a price
PortfolioEntry(security, price) ==
    [security_name |-> security.name, balance |-> security.quantity * price,
     quantity |-> security.quantity,
     total_price_paid |-> security.total_price_paid,
     return_rate |-> calculate_return_rate(security.total_price_paid,
                                           security.quantity * price)]

\* the list get_portfolio builds: one entry for each of the prices given,
\* the prices in the order of the holdings
PortfolioEntries(owned_securities, current_prices) ==
    [i \in 1 .. Len(current_prices) |->
        PortfolioEntry(owned_securities[i], current_prices[i])]

\* TxImpl.get_all_users, in any of the orders
get_all_users(db) == Orderings(db.users)

\* the comparison of buy with >= for >
ExceedsFundsOrEqual(debit_amount, balance) == debit_amount >= balance

\* buy: debit_amount > balance
ExceedsFunds(debit_amount, balance) == debit_amount > balance

\* the comparison of send_gift with the operands exchanged
LacksFundsExchanged(from_user_balance, amount) == amount < from_user_balance

\* the comparison of send_gift with <= for <
LacksFundsOrEqual(from_user_balance, amount) == from_user_balance <= amount

\* send_gift: from_user_balance < amount
LacksFunds(from_user_balance, amount) == from_user_balance < amount

\* the comparison of sell with the operands exchanged
LacksQuantityExchanged(quantity, requested) == requested < quantity

\* sell: quantity < request.quantity, on an integer quantity
LacksQuantity(quantity, requested) == quantity < requested

\* ----------------------------------------------------------------- state
VARIABLES
    lock,        \* transaction_lock: the coroutine holding it, or NoProc
    waiters,     \* coroutines suspended in transaction_lock.acquire(), FIFO
    committed,   \* the database as committed
    conn,        \* the database as the one connection sees it
    inTx,        \* the connection has an open sqlite transaction
    price_cache, \* SecurityServiceImpl.price_cache
    pc,          \* where each coroutine stands
    scope,       \* the transaction scope a coroutine is in or heading for
    req,         \* the operation a coroutine runs, with its arguments
    locals,      \* the local variables of the operation
    outcome,     \* the exception on its way out of a coroutine's scope
    ncalls,      \* operations invoked so far
    now,         \* the day sqlite's date('now') gives
    cache_time   \* the clock of price_cache, and when its entries were
                 \* stored and fetched

vars == <<lock, waiters, committed, conn, inTx, price_cache, pc, scope, req,
          locals, outcome, ncalls, now, cache_time>>

EmptyDb ==
    [users |-> {}, transactions |-> <<>>, orders |-> <<>>,
     allowances |-> <<>>, portfolio_snapshots |-> <<>>]

NoReq ==
    [op |-> "none", user_id |-> "", security_name |-> "", quantity |-> 0,
     to_user_id |-> "", amount |-> 0]

NoLocals ==
    [balance |-> Null, quantity |-> Null, security_price |-> Null,
     transaction_id |-> Null, result |-> Null, user_ids |-> <<>>,
     done |-> 0, owned_securities |-> <<>>, current_prices |-> Null,
     portfolio_snapshots |-> <<>>]

NoOutcome == [kind |-> "none", available |-> Null, required |-> Null]

\* TTLCache(0, ttl=900) when it is made: nothing stored
NoCacheTime ==
    [clock |-> 0, stored_at |-> [s \in Securities |-> 0],
     fetched_at |-> [s \in Securities |-> 0]]

\* an exception of class kind
Raised(kind) == [NoOutcome EXCEPT !.kind = kind]

Init ==
    /\ lock = NoProc
    /\ waiters = <<>>
    /\ committed = EmptyDb
    /\ conn = EmptyDb
    /\ inTx = FALSE
    /\ price_cache = [s \in Securities |-> Null]
    /\ pc = [p \in Procs |-> "idle"]
    /\ scope = [p \in Procs |-> "none"]
    /\ req = [p \in Procs |-> NoReq]
    /\ locals = [p \in Procs |-> NoLocals]
    /\ outcome = [p \in Procs |-> NoOutcome]
    /\ ncalls = 0
    /\ now = 0
    /\ cache_time = NoCacheTime

\* ------------------------------------------------------ DatabaseImpl.tx
\* the first statement of each scope's body
BodyStart(sc) ==
    CASE sc = "create_user" -> "cu_insert"
      [] sc = "create_user_to" -> "cu_insert"
      [] sc = "send_gift" -> "gift_balance"
      [] sc = "update_allowances" -> "ua_eligible"
      [] sc = "get_portfolio" -> "gp_owned"
      [] sc = "get_portfolio_snapshots" -> "gps_read"
      [] sc = "take_portfolio_snapshots" -> "tps_users"
      [] sc = "get_balance" -> "gb_balance"
      [] sc = "buy" -> "buy_balance"
      [] sc = "sell" -> "sell_quantity"
      [] OTHER -> "idle"

\* the steps that await a statement on the connection
DbSteps ==
    {"cu_insert", "cu_allowance", "cu_credit", "gb_balance", "buy_balance",
     "buy_debit", "buy_order", "sell_quantity", "sell_credit", "sell_order",
     "gift_balance", "gift_debit", "gift_credit", "ua_eligible",
     "ua_allowance", "ua_credit", "gp_owned", "tps_users", "tps_owned",
     "tps_snapshot", "gps_read"}

BodySteps == DbSteps \cup {"buy_price", "sell_price", "tps_prices"}

\* between the return of transaction_lock.acquire() and release()
InScope(p) == pc[p] \in BodySteps \cup {"begin", "commit", "rollback"}

\* tx() without the acquire: p goes on to BEGIN whoever holds the lock
EnterTxUnlocked(p, lk) ==
    /\ lock' = p
    /\ waiters' = waiters
    /\ pc' = [pc EXCEPT ![p] = "begin"]

\* acquire() that takes a free lock past the callers queued for it
EnterTxBarging(p, lk) ==
    IF lk = NoProc
    THEN /\ lock' = p
         /\ waiters' = waiters
         /\ pc' = [pc EXCEPT ![p] = "begin"]
    ELSE /\ lock' = lk
         /\ waiters' = Append(waiters, p)
         /\ pc' = [pc EXCEPT ![p] = "waiting"]

\* await self.transaction_lock.acquire(), entered by p with the lock as it
\* is in lk: p takes it at once or queues behind the waiters
EnterTx(p, lk) ==
    IF lk = NoProc /\ waiters = <<>>
    THEN /\ lock' = p
         /\ waiters' = waiters
         /\ pc' = [pc EXCEPT ![p] = "begin"]
    ELSE /\ lock' = lk
         /\ waiters' = Append(waiters, p)
         /\ pc' = [pc EXCEPT ![p] = "waiting"]

\* release() woke the first waiter, which now returns from acquire()
WakeUp(p) ==
    /\ pc[p] = "waiting"
    /\ lock = NoProc
    /\ waiters # <<>>
    /\ Head(waiters) = p
    /\ lock' = p
    /\ waiters' = Tail(waiters)
    /\ pc' = [pc EXCEPT ![p] = "begin"]
    /\ UNCHANGED <<committed, conn, inTx, price_cache, scope, req, locals,
                   outcome, ncalls, now, cache_time>>

\* tx() without its except branch: the exception reaches the caller with
\* the transaction still open
RaiseUncaught(p, exc) ==
    /\ pc' = [pc EXCEPT ![p] = "idle"]
    /\ outcome' = [outcome EXCEPT ![p] = exc]

\* an exception leaves the body (or BEGIN, or commit): the except branch
Raise(p, exc) ==
    /\ pc' = [pc EXCEPT ![p] = "rollback"]
    /\ outcome' = [outcome EXCEPT ![p] = exc]

\* BEGIN IMMEDIATE succeeds: the connection has no open transaction
Begin(p) ==
    /\ pc[p] = "begin"
    /\ ~inTx
    /\ inTx' = TRUE
    /\ pc' = [pc EXCEPT ![p] = BodyStart(scope[p])]
    /\ UNCHANGED <<lock, waiters, committed, conn, price_cache, scope, req,
                   locals, outcome, ncalls, now, cache_time>>

\* BEGIN IMMEDIATE fails: the file is locked, or (always, when inTx) sqlite
\* refuses a transaction within a transaction
BeginFail(p) ==
    /\ pc[p] = "begin"
    /\ Raise(p, Raised("sqlite3.Error"))
    /\ UNCHANGED <<lock, waiters, committed, conn, inTx, price_cache, scope,
                   req, locals, ncalls, now, cache_time>>

\* the failure of a statement swallowed by the body, which goes on to commit
StorageFailSuppressed(p) ==
    /\ pc[p] \in DbSteps
    /\ pc' = [pc EXCEPT ![p] = "commit"]
    /\ UNCHANGED <<lock, waiters, committed, conn, inTx, price_cache, scope,
                   req, locals, outcome, ncalls, now, cache_time>>

\* a statement of the body fails in sqlite
StorageFail(p) ==
    /\ pc[p] \in DbSteps
    /\ Raise(p, Raised("sqlite3.Error"))
    /\ UNCHANGED <<lock, waiters, committed, conn, inTx, price_cache, scope,
                   req, locals, ncalls, now, cache_time>>

\* the operation is over for p: its value or exception is the caller's, its
\* frame is gone
Finish(p) ==
    /\ scope' = [scope EXCEPT ![p] = "none"]
    /\ req' = [req EXCEPT ![p] = NoReq]
    /\ locals' = [locals EXCEPT ![p] = NoLocals]
    /\ outcome' = [outcome EXCEPT ![p] = NoOutcome]

\* the scopes create_user runs in: for the acting user, and for the
\* recipient of a gift
OnboardingScopes == {"create_user", "create_user_to"}

\* the user id create_user was called with
OnboardedUser(p) ==
    IF scope[p] = "create_user_to" THEN req[p].to_user_id ELSE req[p].user_id

\* the scope the operation enters when create_user has returned;
\* get_portfolio_snapshots starts with get_portfolio
ScopeAfterOnboarding(p) ==
    IF scope[p] = "create_user" /\ req[p].op = "send_gift"
    THEN "create_user_to"
    ELSE IF req[p].op = "get_portfolio_snapshots" THEN "get_portfolio"
    ELSE req[p].op

\* get_portfolio_snapshots returning the stored snapshots alone
StoredSnapshotsOnly(p) ==
    locals[p].portfolio_snapshots

\* get_portfolio_snapshots: the stored snapshots with the PortfolioSnapshot
\* of the latest portfolio appended, created_at = datetime.now()
WithLatestPortfolio(p) ==
    Append(locals[p].portfolio_snapshots,
           [created_at |-> now, entries |-> Val(locals[p].result)])

\* commit succeeds, finally releases; create_user returns into the
\* operation, which enters its next scope without suspending in between;
\* get_portfolio goes on to the prices with the lock released;
\* get_portfolio_snapshots appends the latest portfolio to what it read
Commit(p) ==
    /\ pc[p] = "commit"
    /\ committed' = conn
    /\ inTx' = FALSE
    /\ IF scope[p] \in OnboardingScopes
       THEN /\ scope' = [scope EXCEPT ![p] = ScopeAfterOnboarding(p)]
            /\ EnterTx(p, NoProc)
            /\ UNCHANGED <<req, locals, outcome>>
       ELSE IF scope[p] = "get_portfolio"
       THEN /\ lock' = NoProc
            /\ pc' = [pc EXCEPT ![p] = "gp_prices"]
            /\ UNCHANGED <<waiters, scope, req, locals, outcome>>
       ELSE IF scope[p] = "get_portfolio_snapshots"
       THEN /\ lock' = NoProc
            /\ pc' = [pc EXCEPT ![p] = "gps_return"]
            /\ locals' = [locals EXCEPT ![p].portfolio_snapshots =
                                            WithLatestPortfolio(p)]
            /\ UNCHANGED <<waiters, scope, req, outcome>>
       ELSE /\ lock' = NoProc
            /\ pc' = [pc EXCEPT ![p] = "idle"]
            /\ Finish(p)
            /\ UNCHANGED waiters
    /\ UNCHANGED <<conn, price_cache, ncalls, now, cache_time>>

\* commit raises: the transaction stays open, the except branch runs
CommitFail(p) ==
    /\ pc[p] = "commit"
    /\ Raise(p, Raised("sqlite3.Error"))
    /\ UNCHANGED <<lock, waiters, committed, conn, inTx, price_cache, scope,
                   req, locals, ncalls, now, cache_time>>

\* the except branch committing instead of rolling back
RollbackCommits(p) ==
    /\ pc[p] = "rollback"
    /\ committed' = conn
    /\ inTx' = FALSE
    /\ lock' = NoProc
    /\ pc' = [pc EXCEPT ![p] = "idle"]
    /\ Finish(p)
    /\ UNCHANGED <<waiters, conn, price_cache, ncalls, now, cache_time>>

\* the except branch ending the sqlite transaction without undoing its
\* writes on the connection
RollbackLeavesWrites(p) ==
    /\ pc[p] = "rollback"
    /\ inTx' = FALSE
    /\ lock' = NoProc
    /\ pc' = [pc EXCEPT ![p] = "idle"]
    /\ Finish(p)
    /\ UNCHANGED <<waiters, committed, conn, price_cache, ncalls, now,
                   cache_time>>

\* rollback succeeds, the exception is re-raised, finally releases
Rollback(p) ==
    /\ pc[p] = "rollback"
    /\ conn' = committed
    /\ inTx' = FALSE
    /\ lock' = NoProc
    /\ pc' = [pc EXCEPT ![p] = "idle"]
    /\ Finish(p)
    /\ UNCHANGED <<waiters, committed, price_cache, ncalls, now, cache_time>>

\* release() after the rollback instead of in finally: a failing rollback
\* skips it
RollbackFailKeepsLock(p) ==
    /\ pc[p] = "rollback"
    /\ pc' = [pc EXCEPT ![p] = "idle"]
    /\ Finish(p)
    /\ UNCHANGED <<lock, waiters, committed, conn, inTx, price_cache,
                   ncalls, now, cache_time>>

\* rollback itself raises: its exception propagates, finally releases, the
\* sqlite transaction stays open with its writes pending
RollbackFail(p) ==
    /\ pc[p] = "rollback"
    /\ lock' = NoProc
    /\ pc' = [pc EXCEPT ![p] = "idle"]
    /\ Finish(p)
    /\ UNCHANGED <<waiters, committed, conn, inTx, price_cache, ncalls, now,
                   cache_time>>

\* -------------------------------------------------------- price service
\* what finnhub answers: a quote, 404, or another status
OracleResponses ==
    {[status |-> 200, c |-> c] : c \in OraclePrices}
        \cup {[status |-> 404, c |-> 0], [status |-> 500, c |-> 0]}

\* fetch_security_price: None on 404, an exception on another status
fetch_security_price(resp) ==
    IF resp.status = 404
    THEN [raised |-> FALSE, price |-> Null, fetched |-> TRUE]
    ELSE IF resp.status # 200
    THEN [raised |-> TRUE, price |-> Null, fetched |-> TRUE]
    ELSE [raised |-> FALSE, price |-> Some(resp.c), fetched |-> TRUE]

\* fetch_price_through_cache: the cached price, else what the fetch gives
PriceLookups(name) ==
    IF price_cache[name] # Null
    THEN {[raised |-> FALSE, price |-> price_cache[name], fetched |-> FALSE]}
    ELSE {fetch_security_price(resp) : resp \in OracleResponses}

\* if price is not None: self.price_cache[name] = price, after a hit as
\* after a fetch: the entry is stored anew, with the whole ttl before it
CacheStore(name, r) ==
    /\ price_cache' =
          IF r.price # Null THEN [price_cache EXCEPT ![name] = r.price]
          ELSE price_cache
    /\ cache_time' =
          IF r.price # Null
          THEN [cache_time EXCEPT
                  !.stored_at[name] = cache_time.clock,
                  !.fetched_at[name] =
                      IF r.fetched THEN cache_time.clock ELSE @]
          ELSE cache_time

\* the ttl of a cached price runs out
CacheExpire(name) ==
    /\ price_cache[name] # Null
    /\ price_cache' = [price_cache EXCEPT ![name] = Null]
    /\ UNCHANGED <<lock, waiters, committed, conn, inTx, pc, scope, req,
                   locals, outcome, ncalls, now, cache_time>>

\* ------------------------------------------- YoloServiceImpl.create_user
\* create_user without the test of is_new_user
CreateUserInsertAlways(p) ==
    /\ pc[p] = "cu_insert"
    /\ conn' = create_user_row(conn, OnboardedUser(p))
    /\ pc' = [pc EXCEPT ![p] = "cu_allowance"]
    /\ UNCHANGED <<lock, waiters, committed, inTx, price_cache, scope, req,
                   locals, outcome, ncalls, now, cache_time>>

\* create_user leaving out the INSERT into discord_users
CreateUserInsertLeftOut(p) ==
    /\ pc[p] = "cu_insert"
    /\ pc' = [pc EXCEPT ![p] =
                IF OnboardedUser(p) \notin conn.users THEN "cu_allowance"
                ELSE "commit"]
    /\ UNCHANGED <<lock, waiters, committed, conn, inTx, price_cache, scope,
                   req, locals, outcome, ncalls, now, cache_time>>

CreateUserInsert(p) ==
    /\ pc[p] = "cu_insert"
    /\ conn' = create_user_row(conn, OnboardedUser(p))
    /\ pc' = [pc EXCEPT ![p] =
                IF OnboardedUser(p) \notin conn.users THEN "cu_allowance"
                ELSE "commit"]
    /\ UNCHANGED <<lock, waiters, committed, inTx, price_cache, scope, req,
                   locals, outcome, ncalls, now, cache_time>>

CreateUserAllowance(p) ==
    /\ pc[p] = "cu_allowance"
    /\ conn' = create_allowance(conn, OnboardedUser(p), now)
    /\ pc' = [pc EXCEPT ![p] = "cu_credit"]
    /\ UNCHANGED <<lock, waiters, committed, inTx, price_cache, scope, req,
                   locals, outcome, ncalls, now, cache_time>>

CreateUserCredit(p) ==
    /\ pc[p] = "cu_credit"
    /\ conn' = create_transaction(conn,
                  TransactionInsert(OnboardedUser(p), "CREDIT",
                                    starting_balance, "Initial credit"))
    /\ pc' = [pc EXCEPT ![p] = "commit"]
    /\ UNCHANGED <<lock, waiters, committed, inTx, price_cache, scope, req,
                   locals, outcome, ncalls, now, cache_time>>

\* ------------------------------------------- YoloServiceImpl.get_balance
GetBalance(p) ==
    /\ pc[p] = "gb_balance"
    /\ locals' = [locals EXCEPT ![p].result =
                     Some(get_user_balance(conn, req[p].user_id))]
    /\ pc' = [pc EXCEPT ![p] = "commit"]
    /\ UNCHANGED <<lock, waiters, committed, conn, inTx, price_cache, scope,
                   req, outcome, ncalls, now, cache_time>>

\* --------------------------------------------------- YoloServiceImpl.buy
BuyBalance(p) ==
    /\ pc[p] = "buy_balance"
    /\ locals' = [locals EXCEPT ![p].balance =
                     Some(get_user_balance(conn, req[p].user_id))]
    /\ pc' = [pc EXCEPT ![p] = "buy_price"]
    /\ UNCHANGED <<lock, waiters, committed, conn, inTx, price_cache, scope,
                   req, outcome, ncalls, now, cache_time>>

NotEnoughMoneyException(available_funds, required_funds) ==
    [Raised("NotEnoughMoneyException") EXCEPT
        !.available = Some(available_funds),
        !.required = Some(required_funds)]

BuyPrice(p) ==
    /\ pc[p] = "buy_price"
    /\ \E r \in PriceLookups(req[p].security_name) :
        /\ CacheStore(req[p].security_name, r)
        /\ IF r.raised
           THEN Raise(p, Raised("Exception")) /\ UNCHANGED locals
           ELSE /\ locals' = [locals EXCEPT ![p].security_price = r.price]
                /\ IF r.price = Null
                   THEN Raise(p, Raised("Exception"))
                   ELSE LET debit_amount == Val(r.price) * req[p].quantity
                            balance == Val(locals[p].balance)
                        IN  IF ExceedsFunds(debit_amount, balance)
                            THEN Raise(p, NotEnoughMoneyException(
                                              balance, debit_amount))
                            ELSE /\ pc' = [pc EXCEPT ![p] = "buy_debit"]
                                 /\ UNCHANGED outcome
    /\ UNCHANGED <<lock, waiters, committed, conn, inTx, scope, req, ncalls, now>>

BuyDebit(p) ==
    /\ pc[p] = "buy_debit"
    /\ LET debit_amount == Val(locals[p].security_price) * req[p].quantity
           insert == TransactionInsert(req[p].user_id, "DEBIT", debit_amount,
                                       "Buy")
       IN  /\ conn' = create_transaction(conn, insert)
           /\ locals' = [locals EXCEPT ![p].transaction_id =
                            Some(TransactionRow(conn, insert).id)]
    /\ pc' = [pc EXCEPT ![p] = "buy_order"]
    /\ UNCHANGED <<lock, waiters, committed, inTx, price_cache, scope, req,
                   outcome, ncalls, now, cache_time>>

BuyOrder(p) ==
    /\ pc[p] = "buy_order"
    /\ LET insert == OrderInsert(req[p].user_id,
                                 Val(locals[p].transaction_id), "BUY", req[p],
                                 Val(locals[p].security_price))
       IN  /\ conn' = create_order(conn, insert)
           /\ locals' = [locals EXCEPT ![p].result =
                            Some(Order(conn, insert))]
    /\ pc' = [pc EXCEPT ![p] = "commit"]
    /\ UNCHANGED <<lock, waiters, committed, inTx, price_cache, scope, req,
                   outcome, ncalls, now, cache_time>>

\* -------------------------------------------------- YoloServiceImpl.sell
NotEnoughQuantityException(available_quantity) ==
    [Raised("NotEnoughQuantityException") EXCEPT
        !.available = Some(available_quantity)]

\* quantity < request.quantity raises TypeError when quantity is None
SellQuantity(p) ==
    /\ pc[p] = "sell_quantity"
    /\ LET quantity == get_user_security_quantity(conn, req[p].user_id,
                                                  req[p].security_name)
       IN  IF quantity = Null
           THEN Raise(p, Raised("TypeError")) /\ UNCHANGED locals
           ELSE IF LacksQuantity(Val(quantity), req[p].quantity)
           THEN /\ Raise(p, NotEnoughQuantityException(Val(quantity)))
                /\ UNCHANGED locals
           ELSE /\ locals' = [locals EXCEPT ![p].quantity = quantity]
                /\ pc' = [pc EXCEPT ![p] = "sell_price"]
                /\ UNCHANGED outcome
    /\ UNCHANGED <<lock, waiters, committed, conn, inTx, price_cache, scope,
                   req, ncalls, now, cache_time>>

SellPrice(p) ==
    /\ pc[p] = "sell_price"
    /\ \E r \in PriceLookups(req[p].security_name) :
        /\ CacheStore(req[p].security_name, r)
        /\ IF r.raised
           THEN Raise(p, Raised("Exception")) /\ UNCHANGED locals
           ELSE /\ locals' = [locals EXCEPT ![p].security_price = r.price]
                /\ IF r.price = Null
                   THEN Raise(p, Raised("Exception"))
                   ELSE /\ pc' = [pc EXCEPT ![p] = "sell_credit"]
                        /\ UNCHANGED outcome
    /\ UNCHANGED <<lock, waiters, committed, conn, inTx, scope, req, ncalls, now>>

SellCredit(p) ==
    /\ pc[p] = "sell_credit"
    /\ LET credit_amount == Val(locals[p].security_price) * req[p].quantity
           insert == TransactionInsert(req[p].user_id, "CREDIT",
                                       credit_amount, "Sell")
       IN  /\ conn' = create_transaction(conn, insert)
           /\ locals' = [locals EXCEPT ![p].transaction_id =
                            Some(TransactionRow(conn, insert).id)]
    /\ pc' = [pc EXCEPT ![p] = "sell_order"]
    /\ UNCHANGED <<lock, waiters, committed, inTx, price_cache, scope, req,
                   outcome, ncalls, now, cache_time>>

SellOrder(p) ==
    /\ pc[p] = "sell_order"
    /\ LET insert == OrderInsert(req[p].user_id,
                                 Val(locals[p].transaction_id), "SELL",
                                 req[p], Val(locals[p].security_price))
       IN  /\ conn' = create_order(conn, insert)
           /\ locals' = [locals EXCEPT ![p].result =
                            Some(Order(conn, insert))]
    /\ pc' = [pc EXCEPT ![p] = "commit"]
    /\ UNCHANGED <<lock, waiters, committed, inTx, price_cache, scope, req,
                   outcome, ncalls, now, cache_time>>

\* --------------------------------------------- YoloServiceImpl.send_gift
\* send_gift booking the DEBIT before it compares the balance
GiftBalanceDebitsFirst(p) ==
    /\ pc[p] = "gift_balance"
    /\ LET from_user_balance == get_user_balance(conn, req[p].user_id)
       IN  /\ locals' = [locals EXCEPT ![p].balance = Some(from_user_balance)]
           /\ conn' = create_transaction(conn,
                         TransactionInsert(req[p].user_id, "DEBIT",
                                           req[p].amount, "Gift to"))
           /\ IF LacksFunds(from_user_balance, req[p].amount)
              THEN Raise(p, NotEnoughMoneyException(from_user_balance,
                                                    req[p].amount))
              ELSE /\ pc' = [pc EXCEPT ![p] = "gift_credit"]
                   /\ UNCHANGED outcome
    /\ UNCHANGED <<lock, waiters, committed, inTx, price_cache, scope, req,
                   ncalls, now, cache_time>>

\* the balance read and the comparison, with no suspension between them
GiftBalance(p) ==
    /\ pc[p] = "gift_balance"
    /\ LET from_user_balance == get_user_balance(conn, req[p].user_id)
       IN  /\ locals' = [locals EXCEPT ![p].balance = Some(from_user_balance)]
           /\ IF LacksFunds(from_user_balance, req[p].amount)
              THEN Raise(p, NotEnoughMoneyException(from_user_balance,
                                                    req[p].amount))
              ELSE /\ pc' = [pc EXCEPT ![p] = "gift_debit"]
                   /\ UNCHANGED outcome
    /\ UNCHANGED <<lock, waiters, committed, conn, inTx, price_cache, scope,
                   req, ncalls, now, cache_time>>

GiftDebit(p) ==
    /\ pc[p] = "gift_debit"
    /\ conn' = create_transaction(conn,
                  TransactionInsert(req[p].user_id, "DEBIT", req[p].amount,
                                    "Gift to"))
    /\ pc' = [pc EXCEPT ![p] = "gift_credit"]
    /\ UNCHANGED <<lock, waiters, committed, inTx, price_cache, scope, req,
                   locals, outcome, ncalls, now, cache_time>>

\* the CREDIT booked on the sender instead of the recipient
GiftCreditToSender(p) ==
    /\ pc[p] = "gift_credit"
    /\ conn' = create_transaction(conn,
                  TransactionInsert(req[p].user_id, "CREDIT", req[p].amount,
                                    "Gift from"))
    /\ pc' = [pc EXCEPT ![p] = "commit"]
    /\ UNCHANGED <<lock, waiters, committed, inTx, price_cache, scope, req,
                   locals, outcome, ncalls, now, cache_time>>

GiftCredit(p) ==
    /\ pc[p] = "gift_credit"
    /\ conn' = create_transaction(conn,
                  TransactionInsert(req[p].to_user_id, "CREDIT",
                                    req[p].amount, "Gift from"))
    /\ pc' = [pc EXCEPT ![p] = "commit"]
    /\ UNCHANGED <<lock, waiters, committed, inTx, price_cache, scope, req,
                   locals, outcome, ncalls, now, cache_time>>

\* ------------------------------------- YoloServiceImpl.update_allowances
\* user_ids holds the list read, done the number of users the loop is
\* through with
UpdateAllowancesEligible(p) ==
    /\ pc[p] = "ua_eligible"
    /\ \E user_ids \in get_eligible_users_for_allowance(conn, now) :
        /\ locals' = [locals EXCEPT ![p].user_ids = user_ids, ![p].done = 0]
        /\ pc' = [pc EXCEPT ![p] =
                    IF user_ids = <<>> THEN "commit" ELSE "ua_allowance"]
    /\ UNCHANGED <<lock, waiters, committed, conn, inTx, price_cache, scope,
                   req, outcome, ncalls, now, cache_time>>

UpdateAllowancesGrant(p) ==
    /\ pc[p] = "ua_allowance"
    /\ conn' = create_allowance(conn,
                  locals[p].user_ids[locals[p].done + 1], now)
    /\ pc' = [pc EXCEPT ![p] = "ua_credit"]
    /\ UNCHANGED <<lock, waiters, committed, inTx, price_cache, scope, req,
                   locals, outcome, ncalls, now, cache_time>>

\* the loop committing after every user
UpdateAllowancesCreditCommitsEach(p) ==
    /\ pc[p] = "ua_credit"
    /\ conn' = create_transaction(conn,
                  TransactionInsert(locals[p].user_ids[locals[p].done + 1],
                                    "CREDIT", weekly_allowance,
                                    "Weekly allowance"))
    /\ committed' = conn'
    /\ locals' = [locals EXCEPT ![p].done = @ + 1]
    /\ pc' = [pc EXCEPT ![p] =
                IF locals[p].done + 1 = Len(locals[p].user_ids) THEN "commit"
                ELSE "ua_allowance"]
    /\ UNCHANGED <<lock, waiters, inTx, price_cache, scope, req, outcome,
                   ncalls, now, cache_time>>

UpdateAllowancesCredit(p) ==
    /\ pc[p] = "ua_credit"
    /\ conn' = create_transaction(conn,
                  TransactionInsert(locals[p].user_ids[locals[p].done + 1],
                                    "CREDIT", weekly_allowance,
                                    "Weekly allowance"))
    /\ locals' = [locals EXCEPT ![p].done = @ + 1]
    /\ pc' = [pc EXCEPT ![p] =
                IF locals[p].done + 1 = Len(locals[p].user_ids) THEN "commit"
                ELSE "ua_allowance"]
    /\ UNCHANGED <<lock, waiters, committed, inTx, price_cache, scope, req,
                   outcome, ncalls, now, cache_time>>

\* ----------------------------------------- YoloServiceImpl.get_portfolio
GetPortfolioOwned(p) ==
    /\ pc[p] = "gp_owned"
    /\ \E owned_securities \in get_owned_securities(conn, req[p].user_id) :
        locals' = [locals EXCEPT ![p].owned_securities = owned_securities,
                                 ![p].current_prices = <<>>]
    /\ pc' = [pc EXCEPT ![p] = "commit"]
    /\ UNCHANGED <<lock, waiters, committed, conn, inTx, price_cache, scope,
                   req, outcome, ncalls, now, cache_time>>

\* get_security_prices going on past a missing price: the entries of the
\* prices found are returned
GetPortfolioPricesSkipsMissing(p) ==
    /\ pc[p] = "gp_prices"
    /\ LET owned_securities == locals[p].owned_securities
           prices == locals[p].current_prices
       IN  IF owned_securities = <<>>
           THEN /\ locals' = [locals EXCEPT ![p].result = Some(<<>>)]
                /\ pc' = [pc EXCEPT ![p] = "gp_return"]
                /\ UNCHANGED <<price_cache, cache_time, outcome>>
           ELSE \E r \in PriceLookups(owned_securities[Len(prices) + 1].name) :
                /\ CacheStore(owned_securities[Len(prices) + 1].name, r)
                /\ IF r.raised \/ r.price = Null
                   THEN /\ locals' = [locals EXCEPT ![p].result =
                               Some(PortfolioEntries(owned_securities,
                                                     prices))]
                        /\ pc' = [pc EXCEPT ![p] = "gp_return"]
                        /\ UNCHANGED outcome
                   ELSE LET found == Append(prices, Val(r.price))
                        IN  /\ locals' =
                                 [locals EXCEPT
                                    ![p].current_prices = found,
                                    ![p].result =
                                       IF Len(found) = Len(owned_securities)
                                       THEN Some(PortfolioEntries(
                                                owned_securities, found))
                                       ELSE Null]
                            /\ pc' = [pc EXCEPT ![p] =
                                        IF Len(found) = Len(owned_securities)
                                        THEN "gp_return" ELSE "gp_prices"]
                            /\ UNCHANGED outcome
    /\ UNCHANGED <<lock, waiters, committed, conn, inTx, scope, req, ncalls,
                   now>>

\* get_portfolio returns its list: to the caller, or into
\* get_portfolio_snapshots, which enters its own scope at once
PortfolioReturns(p) ==
    IF req[p].op = "get_portfolio_snapshots"
    THEN /\ scope' = [scope EXCEPT ![p] = "get_portfolio_snapshots"]
         /\ EnterTx(p, lock)
    ELSE /\ pc' = [pc EXCEPT ![p] = "gp_return"]
         /\ UNCHANGED <<lock, waiters, scope>>

\* get_security_prices, one fetch_price_through_cache at a step, outside
\* any scope: a price that is None makes it return None and get_portfolio
\* raise, an exception of the fetch goes through both; after the last price
\* the entries are built
GetPortfolioPrices(p) ==
    /\ pc[p] = "gp_prices"
    /\ LET owned_securities == locals[p].owned_securities
           prices == locals[p].current_prices
       IN  IF owned_securities = <<>>
           THEN /\ locals' = [locals EXCEPT ![p].result = Some(<<>>)]
                /\ PortfolioReturns(p)
                /\ UNCHANGED <<price_cache, cache_time, outcome>>
           ELSE \E r \in PriceLookups(owned_securities[Len(prices) + 1].name) :
                /\ CacheStore(owned_securities[Len(prices) + 1].name, r)
                /\ IF r.raised \/ r.price = Null
                   THEN /\ outcome' = [outcome EXCEPT ![p] =
                                          Raised("Exception")]
                        /\ pc' = [pc EXCEPT ![p] = "gp_return"]
                        /\ UNCHANGED <<lock, waiters, scope, locals>>
                   ELSE LET found == Append(prices, Val(r.price))
                        IN  /\ locals' =
                                 [locals EXCEPT
                                    ![p].current_prices = found,
                                    ![p].result =
                                       IF Len(found) = Len(owned_securities)
                                       THEN Some(PortfolioEntries(
                                                owned_securities, found))
                                       ELSE Null]
                            /\ IF Len(found) = Len(owned_securities)
                               THEN PortfolioReturns(p)
                               ELSE /\ pc' = [pc EXCEPT ![p] = "gp_prices"]
                                    /\ UNCHANGED <<lock, waiters, scope>>
                            /\ UNCHANGED outcome
    /\ UNCHANGED <<committed, conn, inTx, req, ncalls, now>>

\* the list, or the exception, reaches the caller
GetPortfolioReturn(p) ==
    /\ pc[p] = "gp_return"
    /\ pc' = [pc EXCEPT ![p] = "idle"]
    /\ Finish(p)
    /\ UNCHANGED <<lock, waiters, committed, conn, inTx, price_cache, ncalls,
                   now, cache_time>>

\* -------------------------------- YoloServiceImpl.get_portfolio_snapshots
\* tx.get_user_portfolio_snapshots(user_id), in a scope of its own
GetSnapshotsRead(p) ==
    /\ pc[p] = "gps_read"
    /\ \E rows \in get_user_portfolio_snapshots(conn, req[p].user_id) :
        locals' = [locals EXCEPT ![p].portfolio_snapshots = rows]
    /\ pc' = [pc EXCEPT ![p] = "commit"]
    /\ UNCHANGED <<lock, waiters, committed, conn, inTx, price_cache, scope,
                   req, outcome, ncalls, now, cache_time>>

\* the list reaches the caller
GetSnapshotsReturn(p) ==
    /\ pc[p] = "gps_return"
    /\ pc' = [pc EXCEPT ![p] = "idle"]
    /\ Finish(p)
    /\ UNCHANGED <<lock, waiters, committed, conn, inTx, price_cache, ncalls,
                   now, cache_time>>

\* ------------------------------ YoloServiceImpl.take_portfolio_snapshots
TakeSnapshotsUsers(p) ==
    /\ pc[p] = "tps_users"
    /\ \E user_ids \in get_all_users(conn) :
        /\ locals' = [locals EXCEPT ![p].user_ids = user_ids, ![p].done = 0]
        /\ pc' = [pc EXCEPT ![p] =
                    IF user_ids = <<>> THEN "commit" ELSE "tps_owned"]
    /\ UNCHANGED <<lock, waiters, committed, conn, inTx, price_cache, scope,
                   req, outcome, ncalls, now, cache_time>>

\* take_portfolio_snapshots calling get_portfolio(user_id) without its tx:
\* get_portfolio enters database.tx() inside the open scope
TakeSnapshotsOwnedInOwnScope(p) ==
    /\ pc[p] = "tps_owned"
    /\ EnterTx(p, lock)
    /\ UNCHANGED <<committed, conn, inTx, price_cache, scope, req, locals,
                   outcome, ncalls, now, cache_time>>

\* get_portfolio(user_id, create_user=False, tx=tx): the holdings
TakeSnapshotsOwned(p) ==
    /\ pc[p] = "tps_owned"
    /\ \E owned_securities \in
            get_owned_securities(conn, locals[p].user_ids[locals[p].done + 1]) :
        locals' = [locals EXCEPT ![p].owned_securities = owned_securities,
                                 ![p].current_prices = <<>>,
                                 ![p].result = Null]
    /\ pc' = [pc EXCEPT ![p] = "tps_prices"]
    /\ UNCHANGED <<lock, waiters, committed, conn, inTx, price_cache, scope,
                   req, outcome, ncalls, now, cache_time>>

\* get_portfolio(user_id, create_user=False, tx=tx): the prices, inside the
\* scope of take_portfolio_snapshots
TakeSnapshotsPrices(p) ==
    /\ pc[p] = "tps_prices"
    /\ LET owned_securities == locals[p].owned_securities
           prices == locals[p].current_prices
       IN  IF owned_securities = <<>>
           THEN /\ locals' = [locals EXCEPT ![p].result = Some(<<>>)]
                /\ pc' = [pc EXCEPT ![p] = "tps_snapshot"]
                /\ UNCHANGED <<price_cache, cache_time, outcome>>
           ELSE \E r \in PriceLookups(owned_securities[Len(prices) + 1].name) :
                /\ CacheStore(owned_securities[Len(prices) + 1].name, r)
                /\ IF r.raised \/ r.price = Null
                   THEN /\ Raise(p, Raised("Exception"))
                        /\ UNCHANGED locals
                   ELSE LET found == Append(prices, Val(r.price))
                        IN  /\ locals' =
                                 [locals EXCEPT
                                    ![p].current_prices = found,
                                    ![p].result =
                                       IF Len(found) = Len(owned_securities)
                                       THEN Some(PortfolioEntries(
                                                owned_securities, found))
                                       ELSE Null]
                            /\ pc' = [pc EXCEPT ![p] =
                                        IF Len(found) = Len(owned_securities)
                                        THEN "tps_snapshot" ELSE "tps_prices"]
                            /\ UNCHANGED outcome
    /\ UNCHANGED <<lock, waiters, committed, conn, inTx, scope, req, ncalls,
                   now>>

\* the loop committing after every snapshot
TakeSnapshotsInsertCommitsEach(p) ==
    /\ pc[p] = "tps_snapshot"
    /\ conn' = create_portfolio_snapshot(conn,
                  locals[p].user_ids[locals[p].done + 1],
                  Val(locals[p].result), now)
    /\ committed' = conn'
    /\ locals' = [locals EXCEPT ![p].done = @ + 1]
    /\ pc' = [pc EXCEPT ![p] =
                IF locals[p].done + 1 = Len(locals[p].user_ids) THEN "commit"
                ELSE "tps_owned"]
    /\ UNCHANGED <<lock, waiters, inTx, price_cache, scope, req, outcome,
                   ncalls, now, cache_time>>

\* tx.create_portfolio_snapshot: the insert raises sqlite3.IntegrityError
\* when the user has a snapshot of today's date
TakeSnapshotsInsert(p) ==
    /\ pc[p] = "tps_snapshot"
    /\ LET user_id == locals[p].user_ids[locals[p].done + 1]
       IN  IF SnapshotKeyTaken(conn, user_id, now)
           THEN /\ Raise(p, Raised("sqlite3.Error"))
                /\ UNCHANGED <<conn, locals>>
           ELSE /\ conn' = create_portfolio_snapshot(conn, user_id,
                                Val(locals[p].result), now)
                /\ locals' = [locals EXCEPT ![p].done = @ + 1]
                /\ pc' = [pc EXCEPT ![p] =
                            IF locals[p].done + 1 = Len(locals[p].user_ids)
                            THEN "commit" ELSE "tps_owned"]
                /\ UNCHANGED outcome
    /\ UNCHANGED <<lock, waiters, committed, inTx, price_cache, scope, req,
                   ncalls, now, cache_time>>

\* ---------------------------------------------------------- the callers
\* the requests the front end makes: the first user trades freely, the
\* other one is there so that one user's rows are told from another's
Trader == "u1"

\* get_balance(user_id) and a CreateOrderRequest for buy or sell
BalanceRequest(user_id) ==
    [NoReq EXCEPT !.op = "get_balance", !.user_id = user_id]

OrderRequest(op, user_id, security_name, quantity) ==
    [NoReq EXCEPT !.op = op, !.user_id = user_id,
                  !.security_name = security_name, !.quantity = quantity]

Requests ==
    {BalanceRequest(u) : u \in Users}
        \cup {OrderRequest(op, Trader, s, q) :
                 op \in {"buy", "sell"}, s \in Securities, q \in Quantities}
        \cup {OrderRequest("buy", u, s, 1) :
                 u \in Users \ {Trader}, s \in Securities}

\* a command handler invokes an operation; each starts with create_user,
\* whose tx() is entered before the first suspension
Call(p) ==
    /\ pc[p] = "idle"
    /\ ncalls < MaxCalls
    /\ ncalls' = ncalls + 1
    /\ \E r \in Requests : req' = [req EXCEPT ![p] = r]
    /\ scope' = [scope EXCEPT ![p] = "create_user"]
    /\ EnterTx(p, lock)
    /\ UNCHANGED <<committed, conn, inTx, price_cache, locals, outcome, now,
                   cache_time>>

Next ==
    \/ \E p \in Procs :
        \/ Call(p)
        \/ WakeUp(p)
        \/ Begin(p)
        \/ BeginFail(p)
        \/ StorageFail(p)
        \/ Commit(p)
        \/ CommitFail(p)
        \/ Rollback(p)
        \/ RollbackFail(p)
        \/ CreateUserInsert(p)
        \/ CreateUserAllowance(p)
        \/ CreateUserCredit(p)
        \/ GetBalance(p)
        \/ BuyBalance(p)
        \/ BuyPrice(p)
        \/ BuyDebit(p)
        \/ BuyOrder(p)
        \/ SellQuantity(p)
        \/ SellPrice(p)
        \/ SellCredit(p)
        \/ SellOrder(p)
    \/ \E name \in Securities : CacheExpire(name)

Spec == Init /\ [][Next]_vars

\* ------------------------------------------------- gifts between users
\* the amounts MONEY_RE lets through: whole cents
GiftAmounts == {from_cents(c) : c \in {StartingBalanceCents, MaxGiftCents}}

GiftRequest(from_user_id, to_user_id, amount) ==
    [NoReq EXCEPT !.op = "send_gift", !.user_id = from_user_id,
                  !.to_user_id = to_user_id, !.amount = amount]

\* the first user gives to anyone, itself included; the other gives back;
\* the first user also trades
GiftRequests ==
    {GiftRequest(Trader, to, a) : to \in Users, a \in GiftAmounts}
        \cup {GiftRequest(u, Trader, from_cents(StartingBalanceCents)) :
                 u \in Users \ {Trader}}
        \cup {OrderRequest("buy", Trader, s, 1) : s \in Securities}
        \cup {OrderRequest("sell", Trader, s, MaxQty) : s \in Securities}

CallGift(p) ==
    /\ pc[p] = "idle"
    /\ ncalls < MaxCalls
    /\ ncalls' = ncalls + 1
    /\ \E r \in GiftRequests : req' = [req EXCEPT ![p] = r]
    /\ scope' = [scope EXCEPT ![p] = "create_user"]
    /\ EnterTx(p, lock)
    /\ UNCHANGED <<committed, conn, inTx, price_cache, locals, outcome, now,
                   cache_time>>

NextGift ==
    \/ \E p \in Procs :
        \/ CallGift(p)
        \/ WakeUp(p)
        \/ Begin(p)
        \/ BeginFail(p)
        \/ StorageFail(p)
        \/ Commit(p)
        \/ CommitFail(p)
        \/ Rollback(p)
        \/ RollbackFail(p)
        \/ CreateUserInsert(p)
        \/ CreateUserAllowance(p)
        \/ CreateUserCredit(p)
        \/ GiftBalance(p)
        \/ GiftDebit(p)
        \/ GiftCredit(p)
        \/ BuyBalance(p)
        \/ BuyPrice(p)
        \/ BuyDebit(p)
        \/ BuyOrder(p)
        \/ SellQuantity(p)
        \/ SellPrice(p)
        \/ SellCredit(p)
        \/ SellOrder(p)
    \/ \E name \in Securities : CacheExpire(name)

SpecGift == Init /\ [][NextGift]_vars

\* ------------------------------------------------------- cancellation
\* the task is cancelled with tx() written with `except Exception:`:
\* CancelledError passes the except branch, finally releases
CancelInScopeUncaught(p) ==
    /\ pc[p] \in BodySteps \cup {"begin"}
    /\ lock' = NoProc
    /\ pc' = [pc EXCEPT ![p] = "idle"]
    /\ Finish(p)
    /\ UNCHANGED <<waiters, committed, conn, inTx, price_cache, ncalls, now,
                   cache_time>>

\* the task is cancelled while it is suspended at BEGIN IMMEDIATE or at an
\* await of the body (a statement, the price service): CancelledError is
\* raised there and the bare except of tx() takes it
CancelInScope(p) ==
    /\ pc[p] \in BodySteps \cup {"begin"}
    /\ Raise(p, Raised("CancelledError"))
    /\ UNCHANGED <<lock, waiters, committed, conn, inTx, price_cache, scope,
                   req, locals, ncalls, now, cache_time>>

\* the task is cancelled while it awaits connection.commit(): the commit
\* was handed to the connection's thread, which runs it or has not come to
\* it when the rollback of the except branch is queued behind it
CancelAtCommit(p) ==
    /\ pc[p] = "commit"
    /\ \E ran \in BOOLEAN :
        /\ committed' = IF ran THEN conn ELSE committed
        /\ inTx' = IF ran THEN FALSE ELSE inTx
    /\ Raise(p, Raised("CancelledError"))
    /\ UNCHANGED <<lock, waiters, conn, price_cache, scope, req, locals,
                   ncalls, now, cache_time>>

\* s without its element p
Without(s, p) == SelectSeq(s, LAMBDA q : q # p)

\* the task is cancelled inside transaction_lock.acquire(), which is
\* before the try of tx(): the waiter leaves the queue, the exception goes
\* to the caller
CancelWaiting(p) ==
    /\ pc[p] = "waiting"
    /\ waiters' = Without(waiters, p)
    /\ pc' = [pc EXCEPT ![p] = "idle"]
    /\ Finish(p)
    /\ UNCHANGED <<lock, committed, conn, inTx, price_cache, ncalls, now,
                   cache_time>>

\* a buy of one unit by the first user, the balance of the other
CancelRequests ==
    {OrderRequest("buy", Trader, s, 1) : s \in Securities}
        \cup {BalanceRequest(u) : u \in Users \ {Trader}}

CallCancellable(p) ==
    /\ pc[p] = "idle"
    /\ ncalls < MaxCalls
    /\ ncalls' = ncalls + 1
    /\ \E r \in CancelRequests : req' = [req EXCEPT ![p] = r]
    /\ scope' = [scope EXCEPT ![p] = "create_user"]
    /\ EnterTx(p, lock)
    /\ UNCHANGED <<committed, conn, inTx, price_cache, locals, outcome, now,
                   cache_time>>

NextCancel ==
    \/ \E p \in Procs :
        \/ CallCancellable(p)
        \/ CancelInScope(p)
        \/ CancelAtCommit(p)
        \/ CancelWaiting(p)
        \/ WakeUp(p)
        \/ Begin(p)
        \/ BeginFail(p)
        \/ StorageFail(p)
        \/ Commit(p)
        \/ CommitFail(p)
        \/ Rollback(p)
        \/ RollbackFail(p)
        \/ CreateUserInsert(p)
        \/ CreateUserAllowance(p)
        \/ CreateUserCredit(p)
        \/ GetBalance(p)
        \/ BuyBalance(p)
        \/ BuyPrice(p)
        \/ BuyDebit(p)
        \/ BuyOrder(p)
    \/ \E name \in Securities : CacheExpire(name)

SpecCancel == Init /\ [][NextCancel]_vars

\* ------------------------------------------------ the age of a price
\* time passes: an entry whose ttl has run out since it was stored is no
\* longer in the TTLCache for any reader
ClockTick ==
    /\ cache_time.clock + TickSeconds <= MaxClock
    /\ cache_time' = [cache_time EXCEPT !.clock = @ + TickSeconds]
    /\ price_cache' =
          [name \in Securities |->
              IF cache_time'.clock >= cache_time.stored_at[name] + TtlSeconds
              THEN Null ELSE price_cache[name]]
    /\ UNCHANGED <<lock, waiters, committed, conn, inTx, pc, scope, req,
                   locals, outcome, ncalls, now>>

\* the price command: get_security_price(name), which goes through the
\* cache; a price that is None or a fetch that raises stores nothing
PriceCommand(name) ==
    /\ \E r \in PriceLookups(name) : CacheStore(name, r)
    /\ UNCHANGED <<lock, waiters, committed, conn, inTx, pc, scope, req,
                   locals, outcome, ncalls, now>>

NextCache ==
    \/ ClockTick
    \/ \E name \in Securities : PriceCommand(name)

SpecCache == Init /\ [][NextCache]_vars

\* ------------------------------------------------ the ledger, summed up
AmountCents(row) == row.amount_cents
Quantity(row) == row.quantity

\* the cents of a user's transactions of one type
TypeCents(db, user_id, type) ==
    SumSeq(MapSeq(SelectSeq(db.transactions,
                            LAMBDA r : r.user_id = user_id /\ r.type = type),
                  AmountCents))

\* the units of a security a user's orders of one type add up to
TypeQuantity(db, user_id, security_name, type) ==
    SumSeq(MapSeq(SelectSeq(db.orders,
                            LAMBDA r : /\ r.user_id = user_id
                                       /\ r.security_name = security_name
                                       /\ r.type = type),
                  Quantity))

\* BUY quantities minus SELL quantities
NetQuantity(db, user_id, security_name) ==
    TypeQuantity(db, user_id, security_name, "BUY")
        - TypeQuantity(db, user_id, security_name, "SELL")

HasRows(db, user_id) ==
    \E i \in 1 .. Len(db.transactions) : db.transactions[i].user_id = user_id

\* ------------------------------------------------------------------ C1
\* C1: at most one transaction scope opened by tx() is active at a time: a
\* second caller is not past acquire() (not at BEGIN IMMEDIATE, not in its
\* body, not committing or rolling back) while another caller is.
C1_OneActiveScope ==
    \A p, q \in Procs : InScope(p) /\ InScope(q) => p = q

\* one caller queues on the lock while another has written in its scope
C1_Witness ==
    \E p, q \in Procs :
        /\ pc[p] = "waiting"
        /\ pc[q] \in BodySteps
        /\ conn # committed

\* ------------------------------------------------------------------ C2
\* C2: a scope that leaves through commit makes exactly the connection's
\* view the committed database; a scope that leaves through the except
\* branch leaves the committed database as it was and hands an exception
\* to its caller; and every body starts from the committed database, so no
\* write of a failed scope is there for a later transaction to read.
C2_CommitOrRollback ==
    /\ [][\A p \in Procs :
            pc[p] = "commit" /\ pc'[p] \notin {"commit", "rollback"}
                => committed' = conn]_vars
    /\ [][\A p \in Procs :
            pc[p] = "rollback" /\ pc'[p] # "rollback"
                => /\ committed' = committed
                   /\ pc'[p] = "idle"
                   /\ outcome[p].kind # "none"]_vars
    /\ [](\A p \in Procs :
            InScope(p) /\ pc[p] = BodyStart(scope[p]) => conn = committed)

\* a scope that has written rows is in its except branch
C2_Witness ==
    \E p \in Procs :
        /\ pc[p] = "rollback"
        /\ conn.users # committed.users
        /\ conn.allowances # committed.allowances

\* ------------------------------------------------------------------ C3
\* C3: the lock is held only by a caller inside its scope: whichever way a
\* scope ends, the lock is free again, and the first queued caller is one
\* that can take it.
C3_LockReleased ==
    /\ \A p \in Procs : lock = p => InScope(p)
    /\ lock \in Procs \cup {NoProc}
    /\ \A p \in Procs :
          pc[p] = "waiting" <=> \E i \in 1 .. Len(waiters) : waiters[i] = p
    /\ waiters # <<>> => lock # NoProc \/ pc[Head(waiters)] = "waiting"

\* after a rollback that failed (the sqlite transaction is still open) the
\* next caller holds the lock and is at its BEGIN
C3_Witness ==
    \E p \in Procs : pc[p] = "begin" /\ lock = p /\ inTx

\* ------------------------------------------------------------------ C4
\* C4: in every committed state, for every user and security, the BUY
\* quantities minus the SELL quantities of the orders are not negative.
C4_NetQuantityNotNegative ==
    \A u \in Users, s \in Securities : NetQuantity(committed, u, s) >= 0

\* a user has sold all that was bought
C4_Witness ==
    \E u \in Users, s \in Securities :
        /\ TypeQuantity(committed, u, s, "SELL") > 0
        /\ NetQuantity(committed, u, s) = 0

\* ------------------------------------------------------------------ C5
\* C5: from its quantity check until it commits, a sell holds a quantity
\* that is what the committed orders of the user add up to, and that
\* covers the quantity asked: a concurrent sell's order, once committed,
\* is counted by the check of the one that queued behind it.
C5_SellChecksCommitted ==
    \A p \in Procs :
        pc[p] \in {"sell_price", "sell_credit", "sell_order"}
            => /\ locals[p].quantity =
                    Some(NetQuantity(committed, req[p].user_id,
                                     req[p].security_name))
               /\ req[p].quantity <= Val(locals[p].quantity)

\* two sells of one user at once: one commits its order while the other
\* waits for the lock
C5_Witness ==
    \E p, q \in Procs :
        /\ pc[p] = "waiting" /\ scope[p] = "sell"
        /\ pc[q] = "commit" /\ scope[q] = "sell"
        /\ req[p].user_id = req[q].user_id
        /\ req[p].security_name = req[q].security_name

\* ------------------------------------------------------------------ C6
\* C6: for every user, get_user_balance is the cents of the user's CREDIT
\* rows minus the cents of the DEBIT rows, zero for a user without rows,
\* and that is what get_balance returns.
C6_BalanceIsSignedSum ==
    /\ \A u \in Users :
          /\ get_user_balance(conn, u) =
                from_cents(TypeCents(conn, u, "CREDIT")
                               - TypeCents(conn, u, "DEBIT"))
          /\ ~HasRows(conn, u) => get_user_balance(conn, u) = 0
    /\ \A p \in Procs :
          pc[p] = "commit" /\ scope[p] = "get_balance"
              => locals[p].result =
                    Some(from_cents(TypeCents(conn, req[p].user_id, "CREDIT")
                                - TypeCents(conn, req[p].user_id, "DEBIT")))

\* get_balance has read the balance of a user with a CREDIT and a DEBIT
\* while another user has no row
C6_Witness ==
    \E p \in Procs, u \in Users :
        /\ pc[p] = "commit" /\ scope[p] = "get_balance"
        /\ TypeCents(conn, req[p].user_id, "DEBIT") > 0
        /\ TypeCents(conn, req[p].user_id, "CREDIT") > 0
        /\ ~HasRows(conn, u)

\* ------------------------------------------------------------------ C7
\* what a buy about to commit has added to the committed ledger
BuyAddsExactly(p) ==
    LET u == req[p].user_id
        s == req[p].security_name
        q == req[p].quantity
        price == Val(locals[p].security_price)
        n == Len(committed.transactions)
        m == Len(committed.orders)
    IN  /\ Len(conn.transactions) = n + 1
        /\ SubSeq(conn.transactions, 1, n) = committed.transactions
        /\ Len(conn.orders) = m + 1
        /\ SubSeq(conn.orders, 1, m) = committed.orders
        /\ LET debit == conn.transactions[n + 1]
               order == conn.orders[m + 1]
           IN  /\ debit.user_id = u
               /\ debit.type = "DEBIT"
               /\ from_cents(debit.amount_cents) = price * q
               /\ order.user_id = u
               /\ order.type = "BUY"
               /\ order.transaction_id = debit.id
               /\ order.security_name = s
               /\ from_cents(order.security_price_cents) = price
               /\ order.quantity = q
               /\ Val(locals[p].result).security_price = price
        /\ get_user_balance(conn, u) = get_user_balance(committed, u) - price * q
        /\ NetQuantity(conn, u, s) = NetQuantity(committed, u, s) + q

\* C7: a buy of q at oracle price p that is about to commit has added one
\* DEBIT of p*q and one BUY order linked to it, of price p and quantity q;
\* the balance is lower by p*q and the net quantity higher by q.
C7_BuyRecordsCost ==
    \A p \in Procs : pc[p] = "commit" /\ scope[p] = "buy" => BuyAddsExactly(p)

\* the same for the buys whose price is a whole number of cents
C7_BuyRecordsCostWholeCents ==
    \A p \in Procs :
        /\ pc[p] = "commit"
        /\ scope[p] = "buy"
        /\ from_cents(get_amount_in_sub_unit(Val(locals[p].security_price)))
              = Val(locals[p].security_price)
        => BuyAddsExactly(p)

\* ------------------------------------------------------------------ C8
\* C8: a buy leaves its price step with NotEnoughMoneyException exactly when
\* price * quantity is greater than the balance; the exception carries the
\* balance and price * quantity, and the scope has written nothing; a buy
\* that goes on to write has a cost that is at most the balance.
C8_InsufficientFunds ==
    \A p \in Procs :
        LET cost == Val(locals[p].security_price) * req[p].quantity
            balance == get_user_balance(committed, req[p].user_id)
        IN  /\ /\ scope[p] = "buy"
               /\ pc[p] = "rollback"
               /\ locals[p].security_price # Null
               /\ outcome[p].kind # "sqlite3.Error"
               => /\ outcome[p].kind = "NotEnoughMoneyException"
                  /\ cost > balance
                  /\ outcome[p].available = Some(balance)
                  /\ outcome[p].required = Some(cost)
                  /\ conn = committed
            /\ scope[p] = "buy" /\ pc[p] \in {"buy_debit", "buy_order", "commit"}
               => cost <= balance

\* a buy is failing for lack of funds
C8_Witness ==
    \E p \in Procs :
        /\ scope[p] = "buy"
        /\ pc[p] = "rollback"
        /\ outcome[p].kind = "NotEnoughMoneyException"

\* a buy whose cost is the whole balance goes on to write
C8_WitnessExact ==
    \E p \in Procs :
        /\ scope[p] = "buy"
        /\ pc[p] = "commit"
        /\ Val(locals[p].security_price) * req[p].quantity
              = get_user_balance(committed, req[p].user_id)

\* ------------------------------------------------------------------ C9
\* C9: when the price lookup of a buy raises or gives no price, the buy is
\* in the except branch of its scope with nothing written, and leaving the
\* scope changes no committed row.
C9_PriceFailureWritesNothing ==
    /\ [][\A p \in Procs :
            /\ scope[p] = "buy"
            /\ pc[p] = "buy_price"
            /\ outcome'[p].kind = "Exception"
            => /\ pc'[p] = "rollback"
               /\ conn' = committed
               /\ committed' = committed]_vars
    /\ [][\A p \in Procs :
            /\ scope[p] = "buy"
            /\ pc[p] = "rollback"
            /\ outcome[p].kind = "Exception"
            /\ pc'[p] # "rollback"
            => /\ committed'.transactions = committed.transactions
               /\ committed'.orders = committed.orders
               /\ conn.transactions = committed.transactions
               /\ conn.orders = committed.orders]_vars

\* a buy has read the balance and its price lookup has failed
C9_Witness ==
    \E p \in Procs :
        /\ scope[p] = "buy"
        /\ pc[p] = "rollback"
        /\ outcome[p].kind = "Exception"
        /\ locals[p].balance # Null

\* ----------------------------------------------------------------- C10
\* C10: a sell of more than the held net quantity h that fails (other than
\* by a failure of the store) fails with NotEnoughQuantityException carrying
\* h, with nothing written.
C10_InsufficientQuantity ==
    \A p \in Procs :
        LET h == NetQuantity(committed, req[p].user_id, req[p].security_name)
        IN  /\ scope[p] = "sell"
            /\ pc[p] = "rollback"
            /\ req[p].quantity > h
            /\ outcome[p].kind # "sqlite3.Error"
            => /\ outcome[p].kind = "NotEnoughQuantityException"
               /\ outcome[p].available = Some(h)
               /\ conn = committed

\* the same for the users who have an order row for the security
C10_InsufficientQuantityWithOrders ==
    \A p \in Procs :
        LET h == NetQuantity(committed, req[p].user_id, req[p].security_name)
        IN  /\ scope[p] = "sell"
            /\ pc[p] = "rollback"
            /\ req[p].quantity > h
            /\ outcome[p].kind # "sqlite3.Error"
            /\ get_user_security_quantity(committed, req[p].user_id,
                                          req[p].security_name) # Null
            => /\ outcome[p].kind = "NotEnoughQuantityException"
               /\ outcome[p].available = Some(h)
               /\ conn = committed

\* ------------------------------------------------ the weekly allowance
\* create_user for a new user, as one committed scope
Onboard(db, user_id, today) ==
    create_transaction(
        create_allowance(create_user_row(db, user_id), user_id, today),
        TransactionInsert(user_id, "CREDIT", starting_balance,
                          "Initial credit"))

\* the database file as two onboardings on consecutive days leave it
OnboardedDb == Onboard(Onboard(EmptyDb, "u1", 0), "u2", 1)

InitAllowance ==
    /\ lock = NoProc
    /\ waiters = <<>>
    /\ committed = OnboardedDb
    /\ conn = OnboardedDb
    /\ inTx = FALSE
    /\ price_cache = [s \in Securities |-> Null]
    /\ pc = [p \in Procs |-> "idle"]
    /\ scope = [p \in Procs |-> "none"]
    /\ req = [p \in Procs |-> NoReq]
    /\ locals = [p \in Procs |-> NoLocals]
    /\ outcome = [p \in Procs |-> NoOutcome]
    /\ ncalls = 0
    /\ now = 1
    /\ cache_time = NoCacheTime

\* the daily task, or anyone else, calls update_allowances: it enters its
\* scope at once, with no create_user before it
CallUpdateAllowances(p) ==
    /\ pc[p] = "idle"
    /\ ncalls < MaxCalls
    /\ ncalls' = ncalls + 1
    /\ req' = [req EXCEPT ![p] = [NoReq EXCEPT !.op = "update_allowances"]]
    /\ scope' = [scope EXCEPT ![p] = "update_allowances"]
    /\ EnterTx(p, lock)
    /\ UNCHANGED <<committed, conn, inTx, price_cache, locals, outcome, now,
                   cache_time>>

\* midnight
Tick ==
    /\ now < MaxDay
    /\ now' = now + 1
    /\ UNCHANGED <<lock, waiters, committed, conn, inTx, price_cache, pc,
                   scope, req, locals, outcome, ncalls, cache_time>>

NextAllowance ==
    \/ \E p \in Procs :
        \/ CallUpdateAllowances(p)
        \/ WakeUp(p)
        \/ Begin(p)
        \/ BeginFail(p)
        \/ StorageFail(p)
        \/ Commit(p)
        \/ CommitFail(p)
        \/ Rollback(p)
        \/ RollbackFail(p)
        \/ UpdateAllowancesEligible(p)
        \/ UpdateAllowancesGrant(p)
        \/ UpdateAllowancesCredit(p)
    \/ Tick

SpecAllowance == InitAllowance /\ [][NextAllowance]_vars

\* ------------------------------------------- portfolios and snapshots
PortfolioSecurities == {"ACME", "BOLT"}

\* a buy of one unit at a price of one cent, as its committed scope leaves
\* the database
Bought(db, user_id, security_name) ==
    LET debit == TransactionInsert(user_id, "DEBIT", from_cents(1), "Buy")
        request == [security_name |-> security_name, quantity |-> 1]
    IN  create_order(create_transaction(db, debit),
                     OrderInsert(user_id, TransactionRow(db, debit).id, "BUY",
                                 request, from_cents(1)))

\* the database file with two users, the first holding a unit of each of
\* two securities, the second holding nothing
HoldingsDb ==
    Bought(Bought(Onboard(Onboard(EmptyDb, "u1", 0), "u2", 0), "u1", "ACME"),
           "u1", "BOLT")

InitPortfolio ==
    /\ lock = NoProc
    /\ waiters = <<>>
    /\ committed = HoldingsDb
    /\ conn = HoldingsDb
    /\ inTx = FALSE
    /\ price_cache = [s \in PortfolioSecurities |-> Null]
    /\ pc = [p \in Procs |-> "idle"]
    /\ scope = [p \in Procs |-> "none"]
    /\ req = [p \in Procs |-> NoReq]
    /\ locals = [p \in Procs |-> NoLocals]
    /\ outcome = [p \in Procs |-> NoOutcome]
    /\ ncalls = 0
    /\ now = 0
    /\ cache_time = NoCacheTime

\* CommandsCog.portfolio calls get_portfolio, which starts with create_user
CallGetPortfolio(p) ==
    /\ pc[p] = "idle"
    /\ ncalls < MaxCalls
    /\ ncalls' = ncalls + 1
    /\ \E u \in Users :
        req' = [req EXCEPT ![p] =
                   [NoReq EXCEPT !.op = "get_portfolio", !.user_id = u]]
    /\ scope' = [scope EXCEPT ![p] = "create_user"]
    /\ EnterTx(p, lock)
    /\ UNCHANGED <<committed, conn, inTx, price_cache, locals, outcome, now,
                   cache_time>>

\* the daily task calls take_portfolio_snapshots, which enters its scope
\* at once
CallTakeSnapshots(p) ==
    /\ pc[p] = "idle"
    /\ ncalls < MaxCalls
    /\ ncalls' = ncalls + 1
    /\ req' = [req EXCEPT ![p] =
                  [NoReq EXCEPT !.op = "take_portfolio_snapshots"]]
    /\ scope' = [scope EXCEPT ![p] = "take_portfolio_snapshots"]
    /\ EnterTx(p, lock)
    /\ UNCHANGED <<committed, conn, inTx, price_cache, locals, outcome, now,
                   cache_time>>

NextPortfolio ==
    \E p \in Procs :
        \/ CallGetPortfolio(p)
        \/ CallTakeSnapshots(p)
        \/ WakeUp(p)
        \/ Begin(p)
        \/ BeginFail(p)
        \/ StorageFail(p)
        \/ Commit(p)
        \/ CommitFail(p)
        \/ Rollback(p)
        \/ RollbackFail(p)
        \/ CreateUserInsert(p)
        \/ GetPortfolioOwned(p)
        \/ GetPortfolioPrices(p)
        \/ GetPortfolioReturn(p)
        \/ TakeSnapshotsUsers(p)
        \/ TakeSnapshotsOwned(p)
        \/ TakeSnapshotsPrices(p)
        \/ TakeSnapshotsInsert(p)

\* the valuations run within the ttl of the prices they cache
SpecPortfolio == InitPortfolio /\ [][NextPortfolio]_vars

\* --------------------------------------------- snapshots over the days
\* CommandsCog.chart calls get_portfolio_snapshots, which starts with
\* get_portfolio and so with create_user
CallGetPortfolioSnapshots(p) ==
    /\ pc[p] = "idle"
    /\ ncalls < MaxCalls
    /\ ncalls' = ncalls + 1
    /\ \E u \in Users :
        req' = [req EXCEPT ![p] =
                   [NoReq EXCEPT !.op = "get_portfolio_snapshots",
                                 !.user_id = u]]
    /\ scope' = [scope EXCEPT ![p] = "create_user"]
    /\ EnterTx(p, lock)
    /\ UNCHANGED <<committed, conn, inTx, price_cache, locals, outcome, now,
                   cache_time>>

\* midnight, while no operation is under way
NextDay ==
    /\ now < MaxSnapshotDay
    /\ \A p \in Procs : pc[p] = "idle"
    /\ now' = now + 1
    /\ UNCHANGED <<lock, waiters, committed, conn, inTx, price_cache, pc,
                   scope, req, locals, outcome, ncalls, cache_time>>

NextSnapshots ==
    \/ \E p \in Procs :
        \/ CallTakeSnapshots(p)
        \/ CallGetPortfolioSnapshots(p)
        \/ WakeUp(p)
        \/ Begin(p)
        \/ BeginFail(p)
        \/ StorageFail(p)
        \/ Commit(p)
        \/ CommitFail(p)
        \/ Rollback(p)
        \/ RollbackFail(p)
        \/ CreateUserInsert(p)
        \/ GetPortfolioOwned(p)
        \/ GetPortfolioPrices(p)
        \/ GetPortfolioReturn(p)
        \/ GetSnapshotsRead(p)
        \/ GetSnapshotsReturn(p)
        \/ TakeSnapshotsUsers(p)
        \/ TakeSnapshotsOwned(p)
        \/ TakeSnapshotsPrices(p)
        \/ TakeSnapshotsInsert(p)
    \/ NextDay

SpecSnapshots == InitPortfolio /\ [][NextSnapshots]_vars

\* ----------------------------------------------------------------- C11
\* the balances of a set of users, added up
RECURSIVE SumBalances(_, _)
SumBalances(db, users) ==
    IF users = {} THEN 0
    ELSE LET u == CHOOSE x \in users : TRUE
         IN  get_user_balance(db, u) + SumBalances(db, users \ {u})

\* what a gift about to commit has added to the committed ledger: one DEBIT
\* on the sender and one CREDIT on the recipient of the same amount, and
\* nothing else
GiftAddsPair(p) ==
    LET n == Len(committed.transactions)
    IN  /\ Len(conn.transactions) = n + 2
        /\ SubSeq(conn.transactions, 1, n) = committed.transactions
        /\ [conn EXCEPT !.transactions = committed.transactions] = committed
        /\ LET debit == conn.transactions[n + 1]
               credit == conn.transactions[n + 2]
           IN  /\ debit.user_id = req[p].user_id
               /\ debit.type = "DEBIT"
               /\ from_cents(debit.amount_cents) = req[p].amount
               /\ credit.user_id = req[p].to_user_id
               /\ credit.type = "CREDIT"
               /\ credit.amount_cents = debit.amount_cents
        /\ SumBalances(conn, Users) = SumBalances(committed, Users)

\* the sender has X less and the recipient X more
GiftMovesAmount(p) ==
    /\ get_user_balance(conn, req[p].user_id)
          = get_user_balance(committed, req[p].user_id) - req[p].amount
    /\ get_user_balance(conn, req[p].to_user_id)
          = get_user_balance(committed, req[p].to_user_id) + req[p].amount

\* C11 as stated: for all users A and B, a gift of X that is about to commit
\* has recorded one DEBIT on A and one CREDIT on B of X, the sum of all
\* balances is unchanged, A has X less than before and B has X more.
C11_GiftMovesAmountAllUsers ==
    \A p \in Procs :
        pc[p] = "commit" /\ scope[p] = "send_gift"
            => GiftAddsPair(p) /\ GiftMovesAmount(p)

\* C11: a gift of X from A to B that is about to commit has recorded one
\* DEBIT on A and one CREDIT on B of X and nothing else, and the sum of all
\* balances is unchanged; when A and B are different users A has X less and
\* B has X more, and when A gives to itself its balance is what it was.
C11_GiftMovesAmount ==
    \A p \in Procs :
        pc[p] = "commit" /\ scope[p] = "send_gift"
            => /\ GiftAddsPair(p)
               /\ req[p].user_id # req[p].to_user_id => GiftMovesAmount(p)
               /\ req[p].user_id = req[p].to_user_id
                    => get_user_balance(conn, req[p].user_id)
                          = get_user_balance(committed, req[p].user_id)

\* a gift between two users is about to commit, the sender giving on what
\* it was given
C11_Witness ==
    \E p \in Procs :
        /\ pc[p] = "commit"
        /\ scope[p] = "send_gift"
        /\ req[p].user_id # req[p].to_user_id
        /\ req[p].amount > 0
        /\ get_user_balance(committed, req[p].user_id) > starting_balance

\* ----------------------------------------------------------------- C12
\* C12: a gift that fails after its balance read, other than by a failure
\* of the store, fails with NotEnoughMoneyException, and then the amount is
\* greater than the sender's balance; the exception
\* carries the balance and the amount and the scope has written nothing; a
\* gift that goes on to write has an amount that is at most the balance; and
\* no committed balance is negative.
C12_GiftInsufficientFunds ==
    /\ \A p \in Procs :
          LET balance == get_user_balance(committed, req[p].user_id)
          IN  /\ /\ scope[p] = "send_gift"
                 /\ pc[p] = "rollback"
                 /\ locals[p].balance # Null
                 /\ outcome[p].kind # "sqlite3.Error"
                 => /\ outcome[p].kind = "NotEnoughMoneyException"
                    /\ req[p].amount > balance
                    /\ outcome[p].available = Some(balance)
                    /\ outcome[p].required = Some(req[p].amount)
                    /\ conn = committed
              /\ /\ scope[p] = "send_gift"
                 /\ pc[p] \in {"gift_debit", "gift_credit", "commit"}
                 => req[p].amount <= balance
    /\ \A u \in Users : get_user_balance(committed, u) >= 0

\* a sender who has given money away is refused a gift of more than is left
C12_Witness ==
    \E p \in Procs :
        /\ scope[p] = "send_gift"
        /\ pc[p] = "rollback"
        /\ outcome[p].kind = "NotEnoughMoneyException"
        /\ Val(outcome[p].available) < starting_balance
        /\ req[p].user_id \in committed.users

\* ----------------------------------------------------------------- C13
\* the 'Initial credit' rows and the allowance rows of a user
InitialCredits(db, user_id) ==
    SelectSeq(db.transactions,
              LAMBDA r : r.user_id = user_id /\ r.comment = "Initial credit")

Allowances(db, user_id) ==
    SelectSeq(db.allowances, LAMBDA r : r.user_id = user_id)

\* C13: however many create_user calls were made for a user, one after the
\* other or at once, the committed database holds for each user row exactly
\* one 'Initial credit' CREDIT of the starting balance and exactly one
\* allowance grant, and none for an id without a user row; a create_user
\* that finds the row there commits without having written anything.
C13_OnboardedOnce ==
    /\ \A u \in Users :
          IF u \in committed.users
          THEN /\ Len(InitialCredits(committed, u)) = 1
               /\ InitialCredits(committed, u)[1].type = "CREDIT"
               /\ from_cents(InitialCredits(committed, u)[1].amount_cents)
                     = starting_balance
               /\ Len(Allowances(committed, u)) = 1
          ELSE /\ Len(InitialCredits(committed, u)) = 0
               /\ Len(Allowances(committed, u)) = 0
    /\ \A p \in Procs :
          /\ pc[p] = "commit"
          /\ scope[p] \in OnboardingScopes
          /\ OnboardedUser(p) \in committed.users
          => conn = committed

\* create_user has found the row of its user there while another call for
\* the same user waits for the lock
C13_Witness ==
    \E p, q \in Procs :
        /\ pc[p] = "commit"
        /\ scope[p] = "create_user"
        /\ OnboardedUser(p) \in committed.users
        /\ pc[q] = "waiting"
        /\ scope[q] = "create_user"
        /\ OnboardedUser(q) = OnboardedUser(p)

\* ----------------------------------------------------------------- C14
\* every user row of db has its 'Initial credit' and its allowance grant
Funded(db) ==
    \A u \in db.users :
        /\ Len(InitialCredits(db, u)) >= 1
        /\ Len(Allowances(db, u)) >= 1

\* C14: the committed database never holds a user row without its
\* starting-balance CREDIT and its allowance grant, and neither does the
\* connection's view at any statement of a scope, the two statements of
\* create_user that follow its own insert apart: a create_user that fails
\* after its insert commits no user row.
C14_UserIsFunded ==
    /\ Funded(committed)
    /\ \A p \in Procs :
          pc[p] \in (BodySteps \cup {"commit"}) \ {"cu_allowance", "cu_credit"}
              => Funded(conn)

\* create_user fails at its credit, the user row and the grant written,
\* while another caller waits to read
C14_Witness ==
    \E p, q \in Procs :
        /\ pc[p] = "rollback"
        /\ scope[p] = "create_user"
        /\ conn.users # committed.users
        /\ conn.allowances # committed.allowances
        /\ conn.transactions = committed.transactions
        /\ pc[q] = "waiting"

\* ----------------------------------------------------------------- C15
\* the 'Weekly allowance' rows of a user
WeeklyCredits(db, user_id) ==
    SelectSeq(db.transactions,
              LAMBDA r : r.user_id = user_id /\ r.comment = "Weekly allowance")

\* some grant of the user is less than seven days old
GrantedWithinWindow(db, user_id, today) ==
    \E i \in 1 .. Len(db.allowances) :
        /\ db.allowances[i].user_id = user_id
        /\ today - db.allowances[i].created_at < WindowDays

\* C15: no two committed grants of a user are less than seven days apart,
\* however often update_allowances ran; on any day, a user with a grant
\* less than seven days old is in no list get_eligible_users_for_allowance
\* can return and every other user is in each list exactly once; and a run
\* about to commit has written, for each user of its list and for no one
\* else, one grant and one 'Weekly allowance' CREDIT of the weekly
\* allowance.
C15_OncePerWindow ==
    /\ \A u \in Users :
          \A i, j \in 1 .. Len(Allowances(committed, u)) :
              i < j => Allowances(committed, u)[j].created_at
                          - Allowances(committed, u)[i].created_at
                              >= WindowDays
    /\ \A today \in now .. MaxDay :
          \A user_ids \in get_eligible_users_for_allowance(committed, today) :
              /\ \A u \in committed.users :
                    Cardinality({i \in 1 .. Len(user_ids) : user_ids[i] = u})
                        = IF GrantedWithinWindow(committed, u, today)
                          THEN 0 ELSE 1
              /\ \A i \in 1 .. Len(user_ids) : user_ids[i] \in committed.users
    /\ \A p \in Procs :
          pc[p] = "commit" /\ scope[p] = "update_allowances"
              => \A u \in Users :
                    LET listed ==
                          Cardinality({i \in 1 .. Len(locals[p].user_ids) :
                                          locals[p].user_ids[i] = u})
                    IN  /\ listed <= 1
                        /\ Len(Allowances(conn, u))
                              = Len(Allowances(committed, u)) + listed
                        /\ Len(WeeklyCredits(conn, u))
                              = Len(WeeklyCredits(committed, u)) + listed
                        /\ \A i \in 1 .. Len(WeeklyCredits(conn, u)) :
                              /\ WeeklyCredits(conn, u)[i].type = "CREDIT"
                              /\ from_cents(
                                    WeeklyCredits(conn, u)[i].amount_cents)
                                     = weekly_allowance

\* a run finds nobody eligible although a user was granted the weekly
\* allowance by an earlier run
C15_Witness ==
    \E p \in Procs, u \in Users :
        /\ pc[p] = "commit"
        /\ scope[p] = "update_allowances"
        /\ locals[p].user_ids = <<>>
        /\ Len(WeeklyCredits(committed, u)) = 1
        /\ GrantedWithinWindow(committed, u, now)

\* ----------------------------------------------------------------- C16
\* C16: the committed database changes only when a scope commits, and then
\* to the whole of what the scope wrote; an update_allowances that leaves
\* through its except branch, whatever it had written for the users before
\* the failure, leaves the committed grants and credits as they were.
C16_BatchAllOrNothing ==
    /\ [][committed' # committed
            => \E p \in Procs : pc[p] = "commit" /\ committed' = conn]_vars
    /\ [][\A p \in Procs :
            /\ scope[p] = "update_allowances"
            /\ pc[p] = "rollback"
            /\ pc'[p] # "rollback"
            => committed' = committed]_vars

\* a run fails at the second of two eligible users, the grant and the
\* credit of the first written
C16_Witness ==
    \E p \in Procs :
        /\ scope[p] = "update_allowances"
        /\ pc[p] = "rollback"
        /\ Len(locals[p].user_ids) = 2
        /\ locals[p].done = 1
        /\ Len(conn.allowances) > Len(committed.allowances)
        /\ Len(conn.transactions) > Len(committed.transactions)

\* ----------------------------------------------------------------- C17
\* the snapshots of a user
Snapshots(db, user_id) ==
    SelectSeq(db.portfolio_snapshots, LAMBDA r : r.user_id = user_id)

\* C17: the committed database holds as many snapshots of one user as of
\* any other: every run that committed wrote one for each user, and no run
\* that failed at a later user left behind the snapshots it had written
\* for the earlier ones.
C17_SnapshotsAllOrNothing ==
    \A u, v \in committed.users :
        Len(Snapshots(committed, u)) = Len(Snapshots(committed, v))

\* a run fails at a price of its second user, the snapshot of the first
\* written
C17_Witness ==
    \E p \in Procs :
        /\ scope[p] = "take_portfolio_snapshots"
        /\ pc[p] = "rollback"
        /\ outcome[p].kind = "Exception"
        /\ locals[p].done = 1
        /\ Len(conn.portfolio_snapshots) = Len(committed.portfolio_snapshots) + 1

\* ----------------------------------------------------------------- C18
\* the securities of which the committed orders give a user a positive net
\* quantity
Held(db, user_id) ==
    {s \in PortfolioSecurities : NetQuantity(db, user_id, s) > 0}

\* C18: when get_portfolio hands its outcome to the caller it is either an
\* exception and no list, or a list with exactly one entry for each
\* security the user holds and no exception; while prices are still being
\* fetched there is no list; a user who holds nothing gets the empty list.
C18_WholePortfolioOrFailure ==
    \A p \in Procs :
        /\ pc[p] = "gp_prices" => locals[p].result = Null
        /\ pc[p] = "gp_return"
              => \/ /\ outcome[p].kind # "none"
                    /\ locals[p].result = Null
                    /\ Held(committed, req[p].user_id) # {}
                 \/ /\ outcome[p].kind = "none"
                    /\ locals[p].result # Null
                    /\ LET entries == Val(locals[p].result)
                       IN  /\ Len(entries)
                                 = Cardinality(Held(committed, req[p].user_id))
                           /\ {entries[i].security_name :
                                   i \in 1 .. Len(entries)}
                                 = Held(committed, req[p].user_id)
                           /\ \A i \in 1 .. Len(entries) :
                                 entries[i].quantity
                                    = NetQuantity(committed, req[p].user_id,
                                                  entries[i].security_name)

\* get_portfolio fails at the second of two holdings, the price of the
\* first found
C18_Witness ==
    \E p \in Procs :
        /\ pc[p] = "gp_return"
        /\ outcome[p].kind = "Exception"
        /\ Len(locals[p].owned_securities) = 2
        /\ Len(locals[p].current_prices) = 1

\* get_portfolio returns the empty list to a user who holds nothing
C18_WitnessEmpty ==
    \E p \in Procs :
        /\ pc[p] = "gp_return"
        /\ outcome[p].kind = "none"
        /\ locals[p].result = Some(<<>>)

\* ----------------------------------------------------------------- C19
\* the scopes of the operations that move money or securities
OrderScopes == {"buy", "sell", "send_gift"}

\* the exceptions of insufficient funds, insufficient quantity and a price
\* that is not available
BusinessFailures ==
    {"NotEnoughMoneyException", "NotEnoughQuantityException", "Exception"}

\* p leaves the scope of its buy, sell or send_gift with such an exception
FailsInOrderScope(p) ==
    /\ scope[p] \in OrderScopes
    /\ pc[p] = "rollback"
    /\ outcome[p].kind \in BusinessFailures

\* the ids the call of p acts for
ActingUsers(p) ==
    IF req[p].op = "send_gift" THEN {req[p].user_id, req[p].to_user_id}
    ELSE {req[p].user_id}

\* C19 as stated, on the first call made against an empty database: a buy,
\* sell or send_gift that fails with insufficient funds, insufficient
\* quantity or an unavailable price leaves the persisted users,
\* transactions, orders and allowances as they were before the call
\* (empty), also when the acting or receiving id was not a user yet.
C19_FailedCallChangesNothing ==
    \A p \in Procs :
        FailsInOrderScope(p) /\ ncalls = 1 => committed = EmptyDb

\* C19: a buy, sell or send_gift that fails with insufficient funds,
\* insufficient quantity or an unavailable price has, when the exception
\* leaves its transaction scope, written nothing in that scope (the
\* connection shows the committed rows), the acting user and the recipient
\* are committed users with their onboarding done, and leaving the scope
\* changes no committed row; the rows committed on behalf of the call are
\* those of create_user for an id that was new, nothing else.
C19_FailedCallWritesNothingAfterOnboarding ==
    /\ [](\A p \in Procs :
            FailsInOrderScope(p)
                => /\ conn = committed
                   /\ ActingUsers(p) \subseteq committed.users
                   /\ ncalls = 1
                         => /\ committed.users = ActingUsers(p)
                            /\ committed.orders = <<>>
                            /\ Len(committed.transactions)
                                  = Cardinality(ActingUsers(p))
                            /\ Len(committed.allowances)
                                  = Cardinality(ActingUsers(p)))
    /\ [][\A p \in Procs :
            FailsInOrderScope(p) => committed' = committed]_vars

\* a gift beyond the sender's balance fails in the first call made, sender
\* and recipient onboarded by that call
C19_Witness ==
    \E p \in Procs :
        /\ FailsInOrderScope(p)
        /\ req[p].op = "send_gift"
        /\ outcome[p].kind = "NotEnoughMoneyException"
        /\ ncalls = 1
        /\ req[p].to_user_id # req[p].user_id
        /\ committed.users = ActingUsers(p)

\* a sell beyond the holding and a buy without a price fail as well
C19_WitnessSell ==
    \E p \in Procs :
        /\ FailsInOrderScope(p)
        /\ req[p].op = "sell"
        /\ outcome[p].kind = "NotEnoughQuantityException"

C19_WitnessPrice ==
    \E p \in Procs :
        /\ FailsInOrderScope(p)
        /\ req[p].op = "buy"
        /\ outcome[p].kind = "Exception"

\* ----------------------------------------------------------------- C20
\* the exception classes the operations raise
ExceptionClasses ==
    {"Exception", "sqlite3.Error", "TypeError", "NotEnoughMoneyException",
     "NotEnoughQuantityException"}

\* isinstance(e, cls) for an exception e of class kind: every class here
\* derives from Exception directly, and what an except clause matches by
IsInstance(kind, cls) == kind = cls \/ cls = "Exception"

\* what a failing statement of the ledger store raises: sqlite3's errors
\* out of execute and commit, and the Exception TxImpl raises itself when
\* an insert gives no row id or a query no row
StorageFailureClasses == {"sqlite3.Error", "Exception"}

\* the failures a missing price is to be told from
OtherFailureClasses ==
    {"NotEnoughMoneyException", "NotEnoughQuantityException"}
        \cup StorageFailureClasses

\* buy, sell or get_portfolio of p failed because a price was not to be had
PriceFailure(p) ==
    \/ /\ scope[p] = "buy"
       /\ pc[p] = "rollback"
       /\ locals[p].balance # Null
       /\ locals[p].security_price = Null
    \/ /\ scope[p] = "sell"
       /\ pc[p] = "rollback"
       /\ locals[p].quantity # Null
       /\ locals[p].security_price = Null
    \/ /\ scope[p] = "get_portfolio"
       /\ pc[p] = "gp_return"
       /\ outcome[p].kind # "none"

\* C20: a price that is not available reaches the caller of buy, sell and
\* get_portfolio as a failure kind of its own: there is a class the caller
\* can catch that matches this exception and matches neither the
\* exception of insufficient funds, nor that of insufficient quantity, nor
\* one raised for a storage failure.
C20_PriceUnavailableIsDistinct ==
    \A p \in Procs :
        PriceFailure(p)
            => \E cls \in ExceptionClasses :
                   /\ IsInstance(outcome[p].kind, cls)
                   /\ \A other \in OtherFailureClasses :
                         ~IsInstance(other, cls)

\* ----------------------------------------------------------------- C21
\* the DEBIT a buy books and the CREDIT a sell books, from the locals
OrderTransaction(p) ==
    TransactionInsert(req[p].user_id,
                      IF scope[p] = "buy" THEN "DEBIT" ELSE "CREDIT",
                      Val(locals[p].security_price) * req[p].quantity,
                      IF scope[p] = "buy" THEN "Buy" ELSE "Sell")

\* the committed database with the writes the scope of p has made by the
\* time it stands at its step
CommittedPlusOwnWrites(p) ==
    CASE pc[p] = "cu_allowance"
            -> create_user_row(committed, OnboardedUser(p))
      [] pc[p] = "cu_credit"
            -> create_allowance(create_user_row(committed, OnboardedUser(p)),
                                OnboardedUser(p), now)
      [] pc[p] \in {"buy_order", "sell_order"}
            -> create_transaction(committed, OrderTransaction(p))
      [] pc[p] = "gift_credit"
            -> create_transaction(committed,
                  TransactionInsert(req[p].user_id, "DEBIT", req[p].amount,
                                    "Gift to"))
      [] OTHER -> committed

\* the steps of the scopes of create_user, buy, sell and send_gift
LedgerSteps ==
    {"cu_insert", "cu_allowance", "cu_credit", "buy_balance", "buy_price",
     "buy_debit", "buy_order", "sell_quantity", "sell_price", "sell_credit",
     "sell_order", "gift_balance", "gift_debit", "gift_credit"}

\* C21: transactions are ordered by their commits: at every statement of
\* a scope, what the statement reads on the connection is exactly the
\* committed database (the writes of all scopes that committed before)
\* with the writes this scope has made so far, and so never a write of a
\* scope still in progress or of one that was rolled back; the committed
\* database is never anything a second scope has in progress.
C21_ReadsCommittedPlusOwn ==
    /\ \A p \in Procs :
          pc[p] \in LedgerSteps => conn = CommittedPlusOwnWrites(p)
    /\ \A p \in Procs :
          pc[p] = "waiting" /\ lock = NoProc /\ ~inTx => conn = committed

\* a gift has booked its DEBIT and not yet its CREDIT, with the rows of an
\* earlier scope committed, while another caller waits for the lock
C21_Witness ==
    \E p, q \in Procs :
        /\ pc[p] = "gift_credit"
        /\ pc[q] = "waiting"
        /\ Len(committed.transactions) >= 2
        /\ conn # committed

\* a scope starts its body after another was rolled back with rows written
C21_WitnessAfterRollback ==
    \E p, q \in Procs :
        /\ pc[p] = "rollback"
        /\ outcome[p].kind = "sqlite3.Error"
        /\ conn.transactions # committed.transactions
        /\ pc[q] = "waiting"

\* ----------------------------------------------------------------- C22
\* the step cancels the task of p
CancelledNow(p) ==
    outcome[p].kind # "CancelledError" /\ outcome'[p].kind = "CancelledError"

\* the except branch of a cancelled scope ends with the lock free and no
\* committed row changed; the sqlite transaction is closed and its writes
\* are off the connection, unless rollback() itself raised and left both
\* as they were
CancelledScopeLeaves ==
    [][\A p \in Procs :
          /\ pc[p] = "rollback"
          /\ outcome[p].kind = "CancelledError"
          /\ pc'[p] # "rollback"
          => /\ lock' = NoProc
             /\ committed' = committed
             /\ \/ ~inTx' /\ conn' = committed
                \/ inTx' = inTx /\ conn' = conn]_vars

\* a cancellation inside acquire() takes the waiter out of the queue and
\* leaves the lock, the connection and the database alone
CancelledWaiterLeaves ==
    [][\A p \in Procs :
          pc[p] = "waiting" /\ pc'[p] = "idle"
              => /\ lock' = lock
                 /\ waiters' = Without(waiters, p)
                 /\ inTx' = inTx
                 /\ conn' = conn
                 /\ committed' = committed]_vars

\* C22 as stated: a task cancelled while suspended inside a transaction
\* scope has its transaction rolled back (the cancellation commits no
\* row) and the lock released, and a cancellation while waiting for the
\* lock leaves the lock state unchanged.
C22_CancelledScopeIsRolledBack ==
    /\ [][\A p \in Procs :
            InScope(p) /\ CancelledNow(p)
                => pc'[p] = "rollback" /\ committed' = committed]_vars
    /\ CancelledScopeLeaves
    /\ CancelledWaiterLeaves

\* C22: a task cancelled while suspended inside a transaction scope goes
\* through the except branch of tx() with the lock still its own; the
\* rows of the scope are rolled back, or, when the cancellation arrives
\* at the await of the commit, committed all together; a task at BEGIN or
\* in the body leaves its scope in no other way than through the commit or
\* the except branch, cancelled or not; leaving the branch
\* releases the lock and closes the transaction (unless rollback() itself
\* raises); a cancellation while waiting for the lock leaves the lock, the
\* connection and the database unchanged; the lock is never held by a
\* task outside its scope.
C22_CancelledScopeCommitsOrRollsBack ==
    /\ [][\A p \in Procs :
            InScope(p) /\ CancelledNow(p)
                => /\ pc'[p] = "rollback"
                   /\ lock' = p
                   /\ \/ committed' = committed
                      \/ /\ pc[p] = "commit"
                         /\ committed' = conn
                         /\ ~inTx']_vars
    /\ [][\A p \in Procs :
            pc[p] \in BodySteps \cup {"begin"}
                => pc'[p] \in BodySteps \cup {"begin", "commit", "rollback"}]_vars
    /\ CancelledScopeLeaves
    /\ CancelledWaiterLeaves
    /\ [](\A p \in Procs : lock = p => InScope(p))

\* a buy is cancelled while it awaits the price, its balance read
C22_Witness ==
    \E p \in Procs :
        /\ scope[p] = "buy"
        /\ pc[p] = "rollback"
        /\ outcome[p].kind = "CancelledError"
        /\ locals[p].balance # Null
        /\ locals[p].security_price = Null
        /\ lock = p
        /\ inTx

\* a buy is cancelled at its commit, and its rows are committed
C22_WitnessCommitted ==
    \E p \in Procs :
        /\ scope[p] = "buy"
        /\ pc[p] = "rollback"
        /\ outcome[p].kind = "CancelledError"
        /\ locals[p].result # Null
        /\ ~inTx
        /\ committed.orders # <<>>
        /\ committed = conn

\* ----------------------------------------------------------------- C23
\* the seconds since the cached price of a security was fetched from
\* finnhub, and since it was last stored
SecondsSinceFetch(name) == cache_time.clock - cache_time.fetched_at[name]
SecondsSinceStore(name) == cache_time.clock - cache_time.stored_at[name]

\* C23: a price the cache holds, and so returns to the next request, was
\* fetched from the oracle less than the ttl of 900 seconds ago, however
\* often the security was requested since.
C23_CachedPriceWithinWindow ==
    \A name \in Securities :
        price_cache[name] # Null => SecondsSinceFetch(name) < TtlSeconds

\* what holds instead: a price the cache holds was stored, by a fetch or
\* by a request that hit it, less than 900 seconds ago
C23_CachedPriceStoredWithinWindow ==
    \A name \in Securities :
        price_cache[name] # Null => SecondsSinceStore(name) < TtlSeconds

\* ------------------------------------------------ orders of any quantity
\* CommandsCog.buy and CommandsCog.sell pass on quantity = int(args[2]),
\* whatever integer it is: zero and a negative one stand for all of them
AnyQuantities == (-1 .. 0) \cup Quantities

AnyQuantityRequests ==
    {OrderRequest(op, Trader, s, q) :
        op \in {"buy", "sell"}, s \in Securities, q \in AnyQuantities}

CallAnyQuantity(p) ==
    /\ pc[p] = "idle"
    /\ ncalls < MaxQuantityCalls
    /\ ncalls' = ncalls + 1
    /\ \E r \in AnyQuantityRequests : req' = [req EXCEPT ![p] = r]
    /\ scope' = [scope EXCEPT ![p] = "create_user"]
    /\ EnterTx(p, lock)
    /\ UNCHANGED <<committed, conn, inTx, price_cache, locals, outcome, now,
                   cache_time>>

NextAnyQuantity ==
    \E p \in Procs :
        \/ CallAnyQuantity(p)
        \/ WakeUp(p)
        \/ Begin(p)
        \/ BeginFail(p)
        \/ StorageFail(p)
        \/ Commit(p)
        \/ CommitFail(p)
        \/ Rollback(p)
        \/ RollbackFail(p)
        \/ CreateUserInsert(p)
        \/ CreateUserAllowance(p)
        \/ CreateUserCredit(p)
        \/ BuyBalance(p)
        \/ BuyPrice(p)
        \/ BuyDebit(p)
        \/ BuyOrder(p)
        \/ SellQuantity(p)
        \/ SellPrice(p)
        \/ SellCredit(p)
        \/ SellOrder(p)

SpecAnyQuantity == Init /\ [][NextAnyQuantity]_vars

\* ------------------------------------- every operation, from no user on
\* the six operations the commands call, for users the database does not
\* know yet, and the daily snapshots
UserFacingOps ==
    {"get_balance", "buy", "sell", "get_portfolio", "get_portfolio_snapshots",
     "send_gift"}

UserFacingRequests ==
    {BalanceRequest(u) : u \in Users}
        \cup {OrderRequest(op, Trader, s, 1) :
                 op \in {"buy", "sell"}, s \in Securities}
        \cup {GiftRequest(Trader, to, from_cents(1)) : to \in Users \ {Trader}}
        \cup {[NoReq EXCEPT !.op = op, !.user_id = u] :
                 op \in {"get_portfolio", "get_portfolio_snapshots"},
                 u \in Users}

CallUserFacing(p) ==
    /\ pc[p] = "idle"
    /\ ncalls < MaxOnboardingCalls
    /\ ncalls' = ncalls + 1
    /\ \E r \in UserFacingRequests : req' = [req EXCEPT ![p] = r]
    /\ scope' = [scope EXCEPT ![p] = "create_user"]
    /\ EnterTx(p, lock)
    /\ UNCHANGED <<committed, conn, inTx, price_cache, locals, outcome, now,
                   cache_time>>

CallDailySnapshots(p) ==
    /\ pc[p] = "idle"
    /\ ncalls < MaxOnboardingCalls
    /\ ncalls' = ncalls + 1
    /\ req' = [req EXCEPT ![p] =
                  [NoReq EXCEPT !.op = "take_portfolio_snapshots"]]
    /\ scope' = [scope EXCEPT ![p] = "take_portfolio_snapshots"]
    /\ EnterTx(p, lock)
    /\ UNCHANGED <<committed, conn, inTx, price_cache, locals, outcome, now,
                   cache_time>>

NextOnboarding ==
    \E p \in Procs :
        \/ CallUserFacing(p)
        \/ CallDailySnapshots(p)
        \/ WakeUp(p)
        \/ Begin(p)
        \/ BeginFail(p)
        \/ StorageFail(p)
        \/ Commit(p)
        \/ CommitFail(p)
        \/ Rollback(p)
        \/ RollbackFail(p)
        \/ CreateUserInsert(p)
        \/ CreateUserAllowance(p)
        \/ CreateUserCredit(p)
        \/ GetBalance(p)
        \/ BuyBalance(p)
        \/ BuyPrice(p)
        \/ BuyDebit(p)
        \/ BuyOrder(p)
        \/ SellQuantity(p)
        \/ SellPrice(p)
        \/ SellCredit(p)
        \/ SellOrder(p)
        \/ GiftBalance(p)
        \/ GiftDebit(p)
        \/ GiftCredit(p)
        \/ GetPortfolioOwned(p)
        \/ GetPortfolioPrices(p)
        \/ GetPortfolioReturn(p)
        \/ GetSnapshotsRead(p)
        \/ GetSnapshotsReturn(p)
        \/ TakeSnapshotsUsers(p)
        \/ TakeSnapshotsOwned(p)
        \/ TakeSnapshotsPrices(p)
        \/ TakeSnapshotsInsert(p)

SpecOnboarding == Init /\ [][NextOnboarding]_vars

\* ------------------------------------------- callers that keep arriving
\* the other user's get_balance is called again and again without end; the
\* calls that add rows (buy, sell, take_portfolio_snapshots) are counted
LiveRequests ==
    {OrderRequest(op, Trader, s, 1) :
        op \in {"buy", "sell"}, s \in Securities}

CallCounted(p) ==
    /\ pc[p] = "idle"
    /\ ncalls < MaxLiveCalls
    /\ ncalls' = ncalls + 1
    /\ \/ /\ \E r \in LiveRequests : req' = [req EXCEPT ![p] = r]
          /\ scope' = [scope EXCEPT ![p] = "create_user"]
       \/ /\ req' = [req EXCEPT ![p] =
                        [NoReq EXCEPT !.op = "take_portfolio_snapshots"]]
          /\ scope' = [scope EXCEPT ![p] = "take_portfolio_snapshots"]
    /\ EnterTx(p, lock)
    /\ UNCHANGED <<committed, conn, inTx, price_cache, locals, outcome, now,
                   cache_time>>

CallBalance(p) ==
    /\ pc[p] = "idle"
    /\ \E u \in Users \ {Trader} :
        req' = [req EXCEPT ![p] = BalanceRequest(u)]
    /\ scope' = [scope EXCEPT ![p] = "create_user"]
    /\ EnterTx(p, lock)
    /\ UNCHANGED <<committed, conn, inTx, price_cache, locals, outcome,
                   ncalls, now, cache_time>>

\* a step of the task of p once it is called: the event loop resumes it
\* when what it awaits is done
TaskStep(p) ==
    \/ WakeUp(p)
    \/ Begin(p)
    \/ BeginFail(p)
    \/ StorageFail(p)
    \/ Commit(p)
    \/ CommitFail(p)
    \/ Rollback(p)
    \/ RollbackFail(p)
    \/ CreateUserInsert(p)
    \/ CreateUserAllowance(p)
    \/ CreateUserCredit(p)
    \/ GetBalance(p)
    \/ BuyBalance(p)
    \/ BuyPrice(p)
    \/ BuyDebit(p)
    \/ BuyOrder(p)
    \/ SellQuantity(p)
    \/ SellPrice(p)
    \/ SellCredit(p)
    \/ SellOrder(p)
    \/ TakeSnapshotsUsers(p)
    \/ TakeSnapshotsOwned(p)
    \/ TakeSnapshotsPrices(p)
    \/ TakeSnapshotsInsert(p)

NextLive ==
    \E p \in Procs :
        \/ CallCounted(p)
        \/ CallBalance(p)
        \/ TaskStep(p)

\* the event loop runs every task that is ready, and every awaited call of
\* the store and of the oracle returns or raises
SpecLive ==
    /\ Init
    /\ [][NextLive]_vars
    /\ \A p \in Procs : WF_vars(TaskStep(p))

\* ------------------------------------------- the entries of a portfolio
\* the holdings and prices the return statement of get_portfolio is run
\* on: quantities of one and more, a cost that is negative, zero or
\* positive (sells above the buying price bring it to zero and below),
\* prices of whole cents and not
RateQuantities == (1 .. MaxRateQty) \cup {10}

RatePaid ==
    {from_cents(c) :
        c \in (-MaxRatePaidCents .. MaxRatePaidCents) \cup {32, 50000}}

RatePrices == (0 .. MaxRatePrice) \cup {from_cents(33), from_cents(6000)}

InitReturnRate ==
    /\ lock = NoProc
    /\ waiters = <<>>
    /\ committed = EmptyDb
    /\ conn = EmptyDb
    /\ inTx = FALSE
    /\ price_cache = [s \in Securities |-> Null]
    /\ pc = [p \in Procs |-> IF p = "p1" THEN "gp_entries" ELSE "idle"]
    /\ scope = [p \in Procs |-> "none"]
    /\ req = [p \in Procs |-> NoReq]
    /\ \E quantity \in RateQuantities, paid \in RatePaid, price \in RatePrices :
        locals = [p \in Procs |->
                    IF p = "p1"
                    THEN [NoLocals EXCEPT
                            !.owned_securities =
                               <<[name |-> "ACME", quantity |-> quantity,
                                  total_price_paid |-> paid]>>,
                            !.current_prices = <<price>>]
                    ELSE NoLocals]
    /\ outcome = [p \in Procs |-> NoOutcome]
    /\ ncalls = 0
    /\ now = 0
    /\ cache_time = NoCacheTime

\* the return statement of get_portfolio: a PortfolioEntry for each holding
GetPortfolioEntries(p) ==
    /\ pc[p] = "gp_entries"
    /\ locals' = [locals EXCEPT
                    ![p].result = Some(PortfolioEntries(
                                          locals[p].owned_securities,
                                          locals[p].current_prices))]
    /\ pc' = [pc EXCEPT ![p] = "gp_return"]
    /\ UNCHANGED <<lock, waiters, committed, conn, inTx, price_cache, scope,
                   req, outcome, ncalls, now, cache_time>>

NextReturnRate ==
    \E p \in Procs :
        \/ GetPortfolioEntries(p)
        \/ GetPortfolioReturn(p)

SpecReturnRate == InitReturnRate /\ [][NextReturnRate]_vars

C24_WitnessTwoDates ==
    \E i, j \in 1 .. Len(committed.portfolio_snapshots) :
        /\ committed.portfolio_snapshots[i].user_id =
              committed.portfolio_snapshots[j].user_id
        /\ committed.portfolio_snapshots[i].created_at <
              committed.portfolio_snapshots[j].created_at

\* ------------------------------------------------------------------ C25
StoredSnapshotRows(db, user_id) ==
    {i \in 1 .. Len(db.portfolio_snapshots) :
        db.portfolio_snapshots[i].user_id = user_id}

\* C25: when get_portfolio_snapshots(user) completes, its result is the
\* user's stored snapshots in ascending creation order followed by exactly
\* one trailing entry, dated now, holding the portfolio the call has just
\* computed; the call stores nothing (the stored snapshots are the same
\* before and after), and with no stored snapshot the result has one entry.
C25_StoredSnapshotsThenCurrent ==
    [][\A p \in Procs :
        ( /\ scope[p] = "get_portfolio_snapshots"
          /\ pc[p] = "commit"
          /\ pc'[p] = "gps_return" )
        => LET r == locals'[p].portfolio_snapshots
               n == Len(r)
               stored == StoredSnapshotRows(committed', req[p].user_id)
           IN  /\ n = Cardinality(stored) + 1
               /\ \A i \in 1 .. n - 1 :
                    \E k \in stored :
                        /\ committed'.portfolio_snapshots[k].created_at =
                              r[i].created_at
                        /\ loads(committed'.portfolio_snapshots[k].data) =
                              r[i].entries
               /\ \A i, j \in 1 .. n - 1 :
                    i < j => r[i].created_at <= r[j].created_at
               /\ r[n] = [created_at |-> now,
                          entries |-> Val(locals[p].result)]
               /\ committed'.portfolio_snapshots =
                     committed.portfolio_snapshots
               /\ conn'.portfolio_snapshots = conn.portfolio_snapshots
      ]_vars

\* a result of two stored snapshots and the current portfolio
C25_Witness ==
    \E p \in Procs :
        /\ pc[p] = "gps_return"
        /\ outcome[p] = NoOutcome
        /\ Len(locals[p].portfolio_snapshots) = 3
        /\ locals[p].portfolio_snapshots[1].created_at <
              locals[p].portfolio_snapshots[2].created_at

\* no stored snapshot: the current portfolio alone
C25_WitnessSingle ==
    \E p \in Procs :
        /\ pc[p] = "gps_return"
        /\ outcome[p] = NoOutcome
        /\ StoredSnapshotRows(committed, req[p].user_id) = {}
        /\ Len(locals[p].portfolio_snapshots) = 1

\* ------------------------------------------------------------------ C26
Distance(a, b) == IF a >= b THEN a - b ELSE b - a

\* C26: every entry get_portfolio returns has balance = quantity * current
\* price, and a return_rate, counted in hundredths of a percent, of 0 when
\* total_price_paid is zero or negative and otherwise of
\* 100 * (balance - total_price_paid) / total_price_paid, both taken in
\* whole cents, rounded to two decimals (no further than half a hundredth
\* from the exact ratio); 10 units paid 500.00 at a price of 60.00 give
\* balance 600.00 and return_rate 20.00.
C26_BalanceAndReturnRate ==
    \A p \in Procs :
        (pc[p] = "gp_return" /\ locals[p].result # Null)
        => \A i \in 1 .. Len(Val(locals[p].result)) :
            LET e == Val(locals[p].result)[i]
                security == locals[p].owned_securities[i]
                price == locals[p].current_prices[i]
                paid == security.total_price_paid \div Resolution
                balance == e.balance \div Resolution
            IN  /\ e.balance = security.quantity * price
                /\ e.quantity = security.quantity
                /\ e.total_price_paid = security.total_price_paid
                /\ paid <= 0 => e.return_rate = 0
                /\ paid > 0 =>
                      2 * Distance(e.return_rate * paid,
                                   10000 * (balance - paid)) <= paid
                /\ ( /\ security.quantity = 10
                     /\ security.total_price_paid = from_cents(50000)
                     /\ price = from_cents(6000) )
                   => /\ e.balance = from_cents(60000)
                      /\ e.return_rate = 2000

\* the example: 10 units paid 500.00, valued at 60.00 each
C26_Witness ==
    \E p \in Procs :
        /\ pc[p] = "gp_return"
        /\ locals[p].result # Null
        /\ locals[p].owned_securities[1].quantity = 10
        /\ locals[p].owned_securities[1].total_price_paid = from_cents(50000)
        /\ locals[p].current_prices[1] = from_cents(6000)
        /\ Val(locals[p].result)[1].return_rate = 2000

\* a holding whose cost is negative, valued above zero
C26_WitnessNegativeCost ==
    \E p \in Procs :
        /\ pc[p] = "gp_return"
        /\ locals[p].result # Null
        /\ locals[p].owned_securities[1].total_price_paid < 0
        /\ Val(locals[p].result)[1].balance > 0
        /\ Val(locals[p].result)[1].return_rate = 0

\* a ratio that falls between two hundredths and is rounded
C26_WitnessRounded ==
    \E p \in Procs :
        /\ pc[p] = "gp_return"
        /\ locals[p].result # Null
        /\ locals[p].owned_securities[1].total_price_paid = from_cents(3)
        /\ Val(locals[p].result)[1].return_rate = 3333

\* ------------------------------------------------------------------ C27
\* C27: every order row buy or sell has recorded has quantity >= 1,
\* whatever integer quantity the request carries.
C27_OrderQuantityAtLeastOne ==
    \A i \in 1 .. Len(committed.orders) : committed.orders[i].quantity >= 1

\* a committed BUY of a negative quantity, its DEBIT of a negative amount
\* raising the balance above what onboarding granted
C27_NegativeBuyRaisesBalance ==
    \E i \in 1 .. Len(committed.orders) :
        /\ committed.orders[i].type = "BUY"
        /\ committed.orders[i].quantity < 0
        /\ get_user_balance(committed, committed.orders[i].user_id) >
              starting_balance

\* ------------------------------------------------------------------ C28
\* C28: transactions and orders are append-only: every step leaves each
\* committed transaction and each committed order in its place with its
\* fields unchanged; rows are only ever added after them.
C28_TransactionsAndOrdersAppendOnly ==
    [][ /\ Len(committed'.transactions) >= Len(committed.transactions)
        /\ \A i \in 1 .. Len(committed.transactions) :
              committed'.transactions[i] = committed.transactions[i]
        /\ Len(committed'.orders) >= Len(committed.orders)
        /\ \A i \in 1 .. Len(committed.orders) :
              committed'.orders[i] = committed.orders[i]
      ]_vars

\* an order is committed, and a later scope has committed a transaction
\* after it
C28_Witness ==
    \E i \in 1 .. Len(committed.orders) :
        \E j \in 1 .. Len(committed.transactions) :
            /\ committed.transactions[j].id >
                  committed.orders[i].transaction_id
            /\ committed.transactions[j].comment \in
                  {"Gift to", "Gift from", "Initial credit"}

\* ------------------------------------------------------------------ C29
\* the user ids of the rows of a table
RowUsers(rows) == {rows[i].user_id : i \in 1 .. Len(rows)}

\* C29: an operation called by a command is in a scope of its own, or past
\* it, only after the onboarding of its acting user(s) is committed, and
\* every committed transaction, order, allowance and snapshot row carries
\* the id of a committed user.
C29_OnboardedBeforeAnythingElse ==
    /\ \A p \in Procs :
        ( /\ req[p].op \in UserFacingOps
          /\ scope[p] \notin OnboardingScopes \cup {"none"} )
        => ActingUsers(p) \subseteq committed.users
    /\ \A p \in Procs :
        (req[p].op = "send_gift" /\ scope[p] = "create_user_to")
        => req[p].user_id \in committed.users
    /\ RowUsers(committed.transactions) \subseteq committed.users
    /\ RowUsers(committed.orders) \subseteq committed.users
    /\ RowUsers(committed.allowances) \subseteq committed.users
    /\ RowUsers(committed.portfolio_snapshots) \subseteq committed.users

\* a gift under way between two users onboarded by that very call
C29_Witness ==
    \E p \in Procs :
        /\ req[p].op = "send_gift"
        /\ scope[p] = "send_gift"
        /\ pc[p] = "gift_balance"
        /\ ncalls = 1
        /\ committed.users = {req[p].user_id, req[p].to_user_id}

\* rows of all four tables, for users no other call had onboarded
C29_WitnessRows ==
    /\ committed.transactions # <<>>
    /\ committed.orders # <<>>
    /\ committed.allowances # <<>>
    /\ committed.portfolio_snapshots # <<>>

\* get_portfolio_snapshots reading for a user its own call has onboarded
C29_WitnessSnapshots ==
    \E p \in Procs :
        /\ req[p].op = "get_portfolio_snapshots"
        /\ pc[p] = "gps_read"
        /\ ncalls = 1
        /\ committed.users = {req[p].user_id}

\* ------------------------------------------------------------------ C30
\* what a sell about to commit has added to the committed ledger
SellAddsExactly(p) ==
    LET u == req[p].user_id
        s == req[p].security_name
        q == req[p].quantity
        price == Val(locals[p].security_price)
        n == Len(committed.transactions)
        m == Len(committed.orders)
    IN  /\ Len(conn.transactions) = n + 1
        /\ SubSeq(conn.transactions, 1, n) = committed.transactions
        /\ Len(conn.orders) = m + 1
        /\ SubSeq(conn.orders, 1, m) = committed.orders
        /\ LET credit == conn.transactions[n + 1]
               order == conn.orders[m + 1]
           IN  /\ credit.user_id = u
               /\ credit.type = "CREDIT"
               /\ from_cents(credit.amount_cents) = price * q
               /\ order.user_id = u
               /\ order.type = "SELL"
               /\ order.transaction_id = credit.id
               /\ order.security_name = s
               /\ from_cents(order.security_price_cents) = price
               /\ order.quantity = q
               /\ Val(locals[p].result).security_price = price
        /\ get_user_balance(conn, u) = get_user_balance(committed, u) + price * q
        /\ NetQuantity(conn, u, s) = NetQuantity(committed, u, s) - q

\* a sell of all that is held is not refused and leaves nothing
SellsAllHeld(p) ==
    LET u == req[p].user_id
        s == req[p].security_name
    IN  /\ (pc[p] = "rollback" /\ scope[p] = "sell"
              /\ outcome[p].kind = "NotEnoughQuantityException")
           => NetQuantity(conn, u, s) < req[p].quantity
        /\ (pc[p] = "commit" /\ scope[p] = "sell"
              /\ NetQuantity(committed, u, s) = req[p].quantity)
           => NetQuantity(conn, u, s) = 0

\* C30: a sell of q at oracle price p that is about to commit has added one
\* CREDIT of p*q and one SELL order linked to it, of price p and quantity
\* q; the balance is higher by p*q and the net quantity lower by q; a sell
\* of exactly the held quantity is not refused and leaves net quantity 0.
C30_SellRecordsProceeds ==
    \A p \in Procs :
        /\ pc[p] = "commit" /\ scope[p] = "sell" => SellAddsExactly(p)
        /\ SellsAllHeld(p)

\* the same for the sells whose price is a whole number of cents
C30_SellRecordsProceedsWholeCents ==
    \A p \in Procs :
        /\ ( /\ pc[p] = "commit"
             /\ scope[p] = "sell"
             /\ from_cents(get_amount_in_sub_unit(
                               Val(locals[p].security_price)))
                   = Val(locals[p].security_price) )
           => SellAddsExactly(p)
        /\ SellsAllHeld(p)

\* a sell of the two units held, at a whole-cent price, about to commit
C30_WitnessAllHeld ==
    \E p \in Procs :
        /\ pc[p] = "commit" /\ scope[p] = "sell"
        /\ req[p].quantity = 2
        /\ NetQuantity(committed, req[p].user_id, req[p].security_name) = 2
        /\ NetQuantity(conn, req[p].user_id, req[p].security_name) = 0

\* ------------------------------------------------------------------ C31
\* the order rows of a user for a security
OrderRowsOf(db, user_id, security_name) ==
    {i \in 1 .. Len(db.orders) :
        /\ db.orders[i].user_id = user_id
        /\ db.orders[i].security_name = security_name}

\* C31: what sell reads with get_user_security_quantity is an integer, the
\* signed sum of the user's orders for the security and 0 without any, and
\* a sell of a security the user has no order for fails with
\* NotEnoughQuantityException(available_quantity = 0).
C31_QuantityIsAnInteger ==
    \A p \in Procs :
        LET u == req[p].user_id
            s == req[p].security_name
        IN  /\ pc[p] = "sell_quantity"
               => get_user_security_quantity(conn, u, s)
                     = Some(NetQuantity(conn, u, s))
            /\ ( /\ scope[p] = "sell"
                 /\ pc[p] = "rollback"
                 /\ OrderRowsOf(committed, u, s) = {}
                 /\ outcome[p].kind # "sqlite3.Error" )
               => /\ outcome[p].kind = "NotEnoughQuantityException"
                  /\ outcome[p].available = Some(0)

\* the same for the users who have an order row for the security
C31_QuantityIsSignedSumWithOrders ==
    \A p \in Procs :
        LET u == req[p].user_id
            s == req[p].security_name
        IN  (pc[p] = "sell_quantity" /\ OrderRowsOf(conn, u, s) # {})
            => get_user_security_quantity(conn, u, s)
                  = Some(NetQuantity(conn, u, s))

\* a sell of a security never traded, ended by TypeError
C31_SellOfNothingIsTypeError ==
    \E p \in Procs :
        /\ scope[p] = "sell"
        /\ pc[p] = "rollback"
        /\ OrderRowsOf(committed, req[p].user_id, req[p].security_name) = {}
        /\ outcome[p].kind = "TypeError"

\* ------------------------------------------------------------------ C32
\* the oracle is asked in the price step of buy and of sell and nowhere
\* else in them: p is refused for its quantity in a step that is no price
\* step and that leaves the cache as it was
RefusedWithoutOracle(p, kinds) ==
    ( /\ scope[p] = "sell"
      /\ pc[p] # "rollback"
      /\ pc'[p] = "rollback"
      /\ outcome'[p].kind \in kinds )
    => /\ pc[p] = "sell_quantity"
       /\ locals'[p].security_price = Null
       /\ UNCHANGED <<price_cache, cache_time>>

\* a buy refused for its funds has a price; a buy that has read its balance
\* and is left without a price ends with the price failure
BuyAsksOracleFirst(p) ==
    /\ ( /\ scope[p] = "buy"
         /\ pc[p] = "rollback"
         /\ outcome[p].kind = "NotEnoughMoneyException" )
       => /\ locals[p].security_price # Null
          /\ outcome[p].required =
                Some(Val(locals[p].security_price) * req[p].quantity)
    /\ ( /\ scope[p] = "buy"
         /\ pc[p] = "rollback"
         /\ locals[p].balance # Null
         /\ locals[p].security_price = Null )
       => outcome[p].kind = "Exception"

\* C32: a sell of more than the held quantity fails with
\* NotEnoughQuantityException, in the step that reads the quantity and
\* before any oracle call, whatever the oracle would answer; a buy asks
\* the oracle before it compares the funds, so a buy without a price fails
\* with the price failure whatever the balance.
C32_QuantityBeforeOracleFundsAfter ==
    /\ [](\A p \in Procs :
            /\ ( /\ scope[p] = "sell"
                 /\ pc[p] = "rollback"
                 /\ req[p].quantity > NetQuantity(committed, req[p].user_id,
                                                  req[p].security_name)
                 /\ outcome[p].kind # "sqlite3.Error" )
               => /\ outcome[p].kind = "NotEnoughQuantityException"
                  /\ locals[p].security_price = Null
            /\ BuyAsksOracleFirst(p))
    /\ [][\A p \in Procs :
            RefusedWithoutOracle(p, {"NotEnoughQuantityException"})]_vars

\* the order of the steps alone: a sell of more than is held is refused,
\* with NotEnoughQuantityException or with the TypeError of a quantity of
\* None, before any oracle call; buy as above
C32_OrderOfSteps ==
    /\ [](\A p \in Procs :
            /\ ( /\ scope[p] = "sell"
                 /\ pc[p] = "rollback"
                 /\ req[p].quantity > NetQuantity(committed, req[p].user_id,
                                                  req[p].security_name)
                 /\ outcome[p].kind # "sqlite3.Error" )
               => /\ outcome[p].kind \in
                        {"NotEnoughQuantityException", "TypeError"}
                  /\ locals[p].security_price = Null
            /\ BuyAsksOracleFirst(p))
    /\ [][\A p \in Procs :
            RefusedWithoutOracle(p, {"NotEnoughQuantityException",
                                     "TypeError"})]_vars

\* a sell refused with NotEnoughQuantityException while no price is cached
C32_WitnessSell ==
    \E p \in Procs :
        /\ scope[p] = "sell"
        /\ pc[p] = "rollback"
        /\ outcome[p].kind = "NotEnoughQuantityException"
        /\ price_cache[req[p].security_name] = Null

\* a buy without a price, by a user whose balance is zero
C32_WitnessBuy ==
    \E p \in Procs :
        /\ scope[p] = "buy"
        /\ pc[p] = "rollback"
        /\ outcome[p].kind = "Exception"
        /\ locals[p].balance = Some(0)
        /\ locals[p].security_price = Null

\* ------------------------------------------------------------------ C33
\* the callers queued in transaction_lock.acquire()
Queued == {waiters[i] : i \in 1 .. Len(waiters)}

\* C33: no operation waits for the transaction lock while it holds it: a
\* caller inside acquire() is not the holder, a caller between acquire()
\* and release() is the holder and is not queued, and this holds all
\* through take_portfolio_snapshots, which values every user on the
\* transaction it has open.
C33_NeverWaitsOnItself ==
    \A p \in Procs :
        /\ pc[p] = "waiting" => lock # p
        /\ p \in Queued <=> pc[p] = "waiting"
        /\ InScope(p) => lock = p
        /\ scope[p] = "take_portfolio_snapshots"
              /\ pc[p] \in {"tps_users", "tps_owned", "tps_prices", "tps_snapshot"}
           => lock = p /\ p \notin Queued

\* take_portfolio_snapshots about to value its second user, holding the
\* lock another caller waits for
C33_Witness ==
    \E p, q \in Procs :
        /\ scope[p] = "take_portfolio_snapshots"
        /\ pc[p] = "tps_owned"
        /\ locals[p].done = 1
        /\ lock = p
        /\ pc[q] = "waiting"

\* ------------------------------------------------------------------ C34
\* C34: with every ready task scheduled and every call of the store and of
\* the oracle returning or failing, every operation that is called
\* finishes, with a result or a failure, and every caller that waits for
\* the transaction lock gets it, while get_balance calls keep arriving and
\* the lock is held across the oracle calls of buy, sell and
\* take_portfolio_snapshots.
C34_EveryCallFinishes ==
    \A p \in Procs :
        /\ (pc[p] # "idle") ~> (pc[p] = "idle")
        /\ (pc[p] = "waiting") ~> (lock = p)

\* a caller queued while the holder of the lock asks the oracle, all the
\* counted calls made
C34_Witness ==
    \E p, q \in Procs :
        /\ pc[p] = "waiting"
        /\ lock = q
        /\ pc[q] \in {"buy_price", "sell_price", "tps_prices"}
        /\ ncalls = MaxLiveCalls

\* ------------------------------------------------------------------ C35
\* C35: in every committed state the balance of every user, the CREDITs
\* minus the DEBITs, is not negative, whatever the interleaving of the
\* calls; two buys or gifts of one user under way at once do not spend
\* more than the balance between them.
C35_BalanceNotNegative ==
    \A u \in Users : get_user_balance(committed, u) >= 0

\* a gift and a buy of the same user under way at once, each of which the
\* balance covers but not both: one holds the lock past its check, the
\* other waits for it
C35_Witness ==
    \E p, q \in Procs :
        /\ req[p].op = "send_gift" /\ pc[p] \in {"gift_debit", "gift_credit"}
        /\ req[q].op = "buy" /\ pc[q] = "waiting"
        /\ req[q].user_id = req[p].user_id
        /\ req[p].amount <= get_user_balance(committed, req[p].user_id)
        /\ req[p].amount + from_cents(req[q].quantity)
              > get_user_balance(committed, req[p].user_id)

\* a user's committed balance spent down to zero
C35_WitnessSpent ==
    \E u \in Users :
        /\ u \in committed.users
        /\ get_user_balance(committed, u) = 0

====
